---- MODULE Spec2Model ----
(***************************************************************************)
(* Repetition tracking of the RealSense camera thread (RealsenseNew):      *)
(* angle smoothing (calc_angle_3d / limit_angle_jump), the four exercise   *)
(* trackers, the run loop that dispatches them, and the request flags      *)
(* written by the collaborators (session control, simplified calibration). *)
(*                                                                         *)
(* Angles are integers in hundredths of a degree, so that the 0.1 degree   *)
(* anti-stall offset and round(angle, 2) are exact.  The trigonometric     *)
(* part of calc_angle_3d (lines 53-68) is represented by its result, the   *)
(* raw geometric angle of the joint triple, or NaN for a zero-length       *)
(* vector (0/0 in numpy gives nan, not an exception).                      *)
(***************************************************************************)
EXTENDS Integers, Sequences, FiniteSets, TLC

---------------------------------------------------------------------------
(* Bounds of the model *)

MaxRep == 2

MaxRuns == 1

\* exercise runs of a sequence of runs of the camera thread
MaxSequence == 2

MaxHold == 15

MaxMeas == 2

MaxWindow == 2

MaxSaves == 3

MaxTraining == 2

---------------------------------------------------------------------------
(* Program constants *)

Scale == 100

max_angle_jump == 10

AntiStallOffset == 10

NearStraightMin == 17743

AxisThreshold == 200

TargetReps == 5

NaN == -2

Absent == -1

None == -3

NoFrame == [pose |-> "none", missing |-> "none"]

Deg(d) == d * Scale

Abs(x) == IF x < 0 THEN -x ELSE x

---------------------------------------------------------------------------
(* Exercise catalog: the tracker called, joint triples, bounds and flags    *)
(* of each exercise method, verbatim.  b[i] = <<up_lb, up_ub, down_lb,      *)
(* down_ub>> of the i-th angle pair, in degrees.                            *)

ExerciseNames ==
    { "ball_bend_elbows", "ball_switch", "stick_switch",
      "ball_open_arms_and_forward", "weights_open_arms_and_forward",
      "notool_right_hand_up_and_bend", "notool_left_hand_up_and_bend" }

Catalog ==
  [ e \in ExerciseNames |->
    CASE e = "ball_bend_elbows" ->
           [ kind |-> "two", alt |-> FALSE, differ |-> FALSE, side |-> "none",
             j |-> << <<"shoulder", "elbow", "wrist">>, <<"elbow", "shoulder", "hip">> >>,
             b |-> << <<150, 180, 10, 60>>, <<0, 60, 0, 60>> >> ]
      [] e = "ball_switch" ->
           [ kind |-> "two", alt |-> TRUE, differ |-> TRUE, side |-> "none",
             j |-> << <<"shoulder", "elbow", "wrist">>, <<"wrist", "hip", "hip">> >>,
             b |-> << <<100, 180, 140, 180>>, <<95, 140, 35, 70>> >> ]
      [] e = "stick_switch" ->
           [ kind |-> "axis", alt |-> TRUE, differ |-> TRUE, side |-> "none",
             j |-> << <<"shoulder", "elbow", "wrist">>, <<"wrist", "hip", "hip">> >>,
             b |-> << <<0, 180, 140, 180>>, <<95, 140, 35, 70>> >> ]
      [] e = "ball_open_arms_and_forward" ->
           [ kind |-> "three", alt |-> TRUE, differ |-> FALSE, side |-> "none",
             j |-> << <<"hip", "shoulder", "elbow">>, <<"shoulder", "elbow", "wrist">>,
                      <<"elbow", "shoulder", "shoulder">> >>,
             b |-> << <<40, 120, 80, 120>>, <<0, 180, 140, 180>>, <<60, 135, 150, 180>> >> ]
      [] e = "weights_open_arms_and_forward" ->
           [ kind |-> "two", alt |-> FALSE, differ |-> FALSE, side |-> "none",
             j |-> << <<"hip", "shoulder", "elbow">>, <<"shoulder", "elbow", "wrist">> >>,
             b |-> << <<40, 120, 80, 120>>, <<0, 180, 140, 180>> >> ]
      [] e = "notool_right_hand_up_and_bend" ->
           [ kind |-> "side", alt |-> FALSE, differ |-> FALSE, side |-> "right",
             j |-> << <<"hip", "shoulder", "wrist">> >>,
             b |-> << <<120, 160, 0, 180>> >> ]
      [] e = "notool_left_hand_up_and_bend" ->
           [ kind |-> "side", alt |-> FALSE, differ |-> FALSE, side |-> "left",
             j |-> << <<"hip", "shoulder", "wrist">> >>,
             b |-> << <<120, 160, 0, 180>> >> ] ]

up_lb(e, i) == Deg(Catalog[e].b[i][1])

up_ub(e, i) == Deg(Catalog[e].b[i][2])

down_lb(e, i) == Deg(Catalog[e].b[i][3])

down_ub(e, i) == Deg(Catalog[e].b[i][4])

---------------------------------------------------------------------------
(* Smoothing slots and the order in which a tracker computes them *)

Slots == { "R_1", "L_1", "R_2", "L_2", "R_3", "L_3", "calibration" }

EmptySlots == [sl \in Slots |-> Absent]

SlotOrder(e) ==
    CASE Catalog[e].kind = "three" -> <<"R_1", "L_1", "R_2", "L_2", "R_3", "L_3">>
      [] Catalog[e].kind = "side"  -> <<"R_1", "L_1">>
      [] OTHER                     -> <<"R_1", "L_1", "R_2", "L_2">>

SlotPair(sl) == IF sl \in {"R_1", "L_1"} THEN 1 ELSE IF sl \in {"R_2", "L_2"} THEN 2 ELSE 3

SlotSide(sl) == IF sl \in {"R_1", "R_2", "R_3"} THEN "R_" ELSE "L_"

OtherSide(p) == IF p = "R_" THEN "L_" ELSE "R_"

AlternatePair(e) == IF Catalog[e].kind = "three" THEN 3 ELSE 2

\* joint names looked up in the frame for one slot; with use_alternate_angles
\* the third joint of the last pair comes from the opposite side
SlotJoints(e, sl) ==
    LET t  == Catalog[e].j[SlotPair(sl)]
        p  == SlotSide(sl)
        p3 == IF Catalog[e].alt /\ SlotPair(sl) = AlternatePair(e) THEN OtherSide(p) ELSE p
    IN  { p \o t[1], p \o t[2], p3 \o t[3] }

---------------------------------------------------------------------------
(* Skeleton frames.  A frame is a pose of the patient (which fixes the raw  *)
(* geometric angle of every joint triple and the coordinates the trackers   *)
(* compare) together with at most one joint the message did not contain.    *)
(* NoFrame is the socket timeout (get_skeleton_data returns None).          *)

Poses(e) ==
    CASE e = "ball_bend_elbows" -> {"up", "down", "edge", "dedge"}
      [] e = "stick_switch" -> {"up", "down", "edge", "rot"}
      [] e = "weights_open_arms_and_forward" -> {"up", "down", "edge", "low"}
      [] OTHER                  -> {"up", "down", "edge"}

MissingCandidates == {"R_wrist", "nose"}

\* the two poses of each exercise that lie on either side of one edge of an
\* up range: "up" is inside the up ranges, "edge" has an angle on the edge
OscPoses == {"up", "edge"}

Frames(e) == { [pose |-> p, missing |-> m] : p \in Poses(e), m \in {"none"} \cup MissingCandidates }

\* raw geometric angle (degrees) of the triple of slot sl in pose p
RawDeg(e, p, sl) ==
    CASE e = "ball_bend_elbows" ->
           IF SlotPair(sl) = 2 THEN 30
           ELSE (CASE p = "up" -> 160 [] p = "down" -> 50 [] p = "edge" -> 150
                   [] p = "dedge" -> 60 [] p = "s170" -> 170 [] OTHER -> 30)
      [] e \in {"ball_switch", "stick_switch"} ->
           (CASE sl = "R_1" -> IF p = "edge" THEN 140 ELSE 150
              [] sl = "L_1" -> 150
              [] sl = "R_2" -> IF p = "down" THEN 60 ELSE 100
              [] sl = "L_2" -> IF p = "down" THEN 100 ELSE 60
              [] OTHER -> 0)
      [] e = "ball_open_arms_and_forward" ->
           (CASE SlotPair(sl) = 1 -> 100
              [] SlotPair(sl) = 2 -> 160
              [] OTHER -> (CASE p = "up" -> 100 [] p = "down" -> 160 [] OTHER -> 150))
      [] e = "weights_open_arms_and_forward" ->
           IF SlotPair(sl) = 2 THEN 160
           ELSE (CASE p = "up" -> 110 [] p = "down" -> 100 [] p = "edge" -> 120 [] OTHER -> 60)
      [] OTHER -> IF p = "edge" THEN 120 ELSE 140

Raw(e, p, sl) == Deg(RawDeg(e, p, sl))

\* x coordinate of a joint in pose p (camera units)
X(e, p, jn) ==
    CASE e = "stick_switch" /\ jn = "L_shoulder" ->
           IF p = "rot" THEN 200 ELSE 100
      [] e = "notool_right_hand_up_and_bend" /\ jn = "R_wrist" ->
           IF p = "down" THEN -500 ELSE 100
      [] e = "notool_left_hand_up_and_bend" /\ jn = "L_wrist" ->
           IF p = "down" THEN 500 ELSE -100
      [] OTHER -> 0

\* y coordinate of a joint in pose p (camera units)
Y(e, p, jn) ==
    CASE jn = "nose" -> 100
      [] e = "hello_waving" /\ jn = "R_wrist" ->
           (CASE p = "up" -> 100 [] p = "down" -> -100 [] OTHER -> 0)
      [] e = "hello_waving" /\ jn = "R_shoulder" ->
           IF p = "edge" THEN -50 ELSE 0
      [] OTHER -> 0

---------------------------------------------------------------------------
(* AngleCalculator *)

IsNum(v) == v >= 0

\* variant of limit_angle_jump: the jump limit is halved
limit_angle_jump_Half(angle, previous_angle) ==
    IF IsNum(angle) /\ IsNum(previous_angle) /\ Abs(angle - previous_angle) > Deg(max_angle_jump) \div 2
    THEN previous_angle + (IF angle > previous_angle THEN 1 ELSE -1) * (Deg(max_angle_jump) \div 2)
    ELSE angle

\* variant of limit_angle_jump: the jump limit is doubled
limit_angle_jump_Double(angle, previous_angle) ==
    IF IsNum(angle) /\ IsNum(previous_angle) /\ Abs(angle - previous_angle) > 2 * Deg(max_angle_jump)
    THEN previous_angle + (IF angle > previous_angle THEN 1 ELSE -1) * 2 * Deg(max_angle_jump)
    ELSE angle

\* limit_angle_jump: every comparison with a nan operand is False
limit_angle_jump(angle, previous_angle) ==
    IF IsNum(angle) /\ IsNum(previous_angle) /\ Abs(angle - previous_angle) > Deg(max_angle_jump)
    THEN previous_angle + (IF angle > previous_angle THEN 1 ELSE -1) * Deg(max_angle_jump)
    ELSE angle

\* np.isclose(cosine_angle, -1.0, atol=1e-3): the raw angle is at least 177.43
NearStraight(raw) == IsNum(raw) /\ raw >= NearStraightMin

\* calc_angle_3d from the raw geometric angle on; previous = Absent when the
\* slot is not in previous_angles.  stored is the slot's new value, angle the
\* value returned (round(angle, 2), exact in hundredths of a degree).
calc_angle_3d(raw, previous) ==
    LET a1 == IF NearStraight(raw) THEN raw - AntiStallOffset ELSE raw
        a2 == IF previous # Absent THEN limit_angle_jump(a1, previous) ELSE a1
    IN  [stored |-> a2, angle |-> a2]

---------------------------------------------------------------------------
(* One tick of a tracker *)

\* variant of InRange: bounds inclusive
InRange_Inclusive(lb, v, ub) == IsNum(v) /\ lb <= v /\ v <= ub

\* lb < v < ub, exclusive at both ends; False for nan
InRange(lb, v, ub) == IsNum(v) /\ lb < v /\ v < ub

InUp(e, i, v) == InRange(up_lb(e, i), v, up_ub(e, i))

InDown(e, i, v) == InRange(down_lb(e, i), v, down_ub(e, i))

PairsOf(e) == 1 .. Len(Catalog[e].b)

RSlot(i) == CASE i = 1 -> "R_1" [] i = 2 -> "R_2" [] OTHER -> "R_3"

LSlot(i) == CASE i = 1 -> "L_1" [] i = 2 -> "L_2" [] OTHER -> "L_3"

\* left_right_differ is honoured by the two-angle trackers only
Differ(e) == Catalog[e].differ /\ Catalog[e].kind \in {"two", "axis"}

\* variant of AxisOk: the shoulder separation is not tested
AxisOk_Untested(e, fr) == TRUE

\* the axis predicate is evaluated in the left_right_differ branch only, with
\* the literal 200
AxisOk(e, fr) ==
    (Catalog[e].kind = "axis" /\ Differ(e))
        => Abs(X(e, fr.pose, "L_shoulder") - X(e, fr.pose, "R_shoulder")) < AxisThreshold

\* the tested side of the one-sided tracker
SideSlot(e) == IF Catalog[e].side = "right" THEN "R_1" ELSE "L_1"

\* variant of UpCond: with left_right_differ the counting branch tests the
\* right angles against the down ranges and the left angles against the up
\* ranges
UpCond_SidesExchanged(e, a, fr) ==
    IF Catalog[e].kind = "side"
    THEN /\ InUp(e, 1, a[SideSlot(e)])
         /\ IF Catalog[e].side = "right"
            THEN X(e, fr.pose, "R_wrist") > X(e, fr.pose, "L_shoulder") + 50
            ELSE X(e, fr.pose, "R_shoulder") - 50 > X(e, fr.pose, "L_wrist")
         /\ IF Catalog[e].side = "right"
            THEN Y(e, fr.pose, "nose") - 50 > Y(e, fr.pose, "R_wrist")
            ELSE Y(e, fr.pose, "nose") - 50 > Y(e, fr.pose, "L_wrist")
    ELSE /\ \A i \in PairsOf(e) :
              IF Differ(e)
              THEN InDown(e, i, a[RSlot(i)]) /\ InUp(e, i, a[LSlot(i)])
              ELSE InUp(e, i, a[RSlot(i)]) /\ InUp(e, i, a[LSlot(i)])
         /\ AxisOk(e, fr)

\* condition of the branch that counts, without its (not flag) conjunct
UpCond(e, a, fr) ==
    IF Catalog[e].kind = "side"
    THEN /\ InUp(e, 1, a[SideSlot(e)])
         /\ IF Catalog[e].side = "right"
            THEN X(e, fr.pose, "R_wrist") > X(e, fr.pose, "L_shoulder") + 50
            ELSE X(e, fr.pose, "R_shoulder") - 50 > X(e, fr.pose, "L_wrist")
         /\ IF Catalog[e].side = "right"
            THEN Y(e, fr.pose, "nose") - 50 > Y(e, fr.pose, "R_wrist")
            ELSE Y(e, fr.pose, "nose") - 50 > Y(e, fr.pose, "L_wrist")
    ELSE /\ \A i \in PairsOf(e) :
              /\ InUp(e, i, a[RSlot(i)])
              /\ IF Differ(e) THEN InDown(e, i, a[LSlot(i)]) ELSE InUp(e, i, a[LSlot(i)])
         /\ AxisOk(e, fr)

\* condition of the elif branch, without its (flag) conjunct
DownCond(e, a, fr) ==
    IF Catalog[e].kind = "side"
    THEN /\ InDown(e, 1, a[SideSlot(e)])
         /\ IF Catalog[e].side = "right"
            THEN X(e, fr.pose, "R_wrist") < X(e, fr.pose, "L_shoulder") - 400
            ELSE X(e, fr.pose, "L_wrist") > X(e, fr.pose, "R_shoulder") + 400
    ELSE /\ \A i \in PairsOf(e) :
              /\ InDown(e, i, a[RSlot(i)])
              /\ IF Differ(e) THEN InUp(e, i, a[LSlot(i)]) ELSE InDown(e, i, a[LSlot(i)])
         /\ AxisOk(e, fr)

UpFires(e, fl, a, fr) == UpCond(e, a, fr) /\ ~fl

DownFires(e, fl, a, fr) == DownCond(e, a, fr) /\ fl

\* joints the transition conditions index besides those of the slots
CondJoints(e) ==
    CASE Catalog[e].kind = "axis" /\ Differ(e) -> {"L_shoulder", "R_shoulder"}
      [] Catalog[e].side = "right" -> {"R_wrist", "L_shoulder", "nose"}
      [] Catalog[e].side = "left"  -> {"L_wrist", "R_shoulder", "nose"}
      [] OTHER -> {}

\* the calc_angle_3d calls of one tick, in program order; indexing the frame
\* with a joint it lacks raises KeyError (ok = FALSE) after the earlier slots
\* were already stored
RECURSIVE ComputeSlots(_, _, _, _, _)
ComputeSlots(e, fr, i, prev, ang) ==
    IF i > Len(SlotOrder(e))
    THEN [ok |-> TRUE, prev |-> prev, angles |-> ang]
    ELSE LET sl == SlotOrder(e)[i] IN
         IF fr.missing \in SlotJoints(e, sl)
         THEN [ok |-> FALSE, prev |-> prev, angles |-> ang]
         ELSE LET r == calc_angle_3d(Raw(e, fr.pose, sl), prev[sl]) IN
              ComputeSlots(e, fr, i + 1, [prev EXCEPT ![sl] = r.stored],
                           [ang EXCEPT ![sl] = r.angle])

\* variant of Evaluate: the elif branch counts as well
Evaluate_CountOnDown(e, fl, cnt, fr, prev) ==
    IF fr = NoFrame
    THEN [crash |-> FALSE, prev |-> prev, angles |-> EmptySlots, flag |-> fl, counter |-> cnt]
    ELSE LET c == ComputeSlots(e, fr, 1, prev, EmptySlots) IN
         IF ~c.ok \/ fr.missing \in CondJoints(e)
         THEN [crash |-> TRUE, prev |-> c.prev, angles |-> c.angles, flag |-> fl, counter |-> cnt]
         ELSE IF UpFires(e, fl, c.angles, fr)
         THEN [crash |-> FALSE, prev |-> c.prev, angles |-> c.angles, flag |-> TRUE, counter |-> cnt + 1]
         ELSE IF DownFires(e, fl, c.angles, fr)
         THEN [crash |-> FALSE, prev |-> c.prev, angles |-> c.angles, flag |-> FALSE, counter |-> cnt + 1]
         ELSE [crash |-> FALSE, prev |-> c.prev, angles |-> c.angles, flag |-> fl, counter |-> cnt]

\* variant of Evaluate: a timeout drops the smoothing slots
Evaluate_TimeoutClears(e, fl, cnt, fr, prev) ==
    IF fr = NoFrame
    THEN [crash |-> FALSE, prev |-> EmptySlots, angles |-> EmptySlots, flag |-> fl, counter |-> cnt]
    ELSE LET c == ComputeSlots(e, fr, 1, prev, EmptySlots) IN
         IF ~c.ok \/ fr.missing \in CondJoints(e)
         THEN [crash |-> TRUE, prev |-> c.prev, angles |-> c.angles, flag |-> fl, counter |-> cnt]
         ELSE IF UpFires(e, fl, c.angles, fr)
         THEN [crash |-> FALSE, prev |-> c.prev, angles |-> c.angles, flag |-> TRUE, counter |-> cnt + 1]
         ELSE IF DownFires(e, fl, c.angles, fr)
         THEN [crash |-> FALSE, prev |-> c.prev, angles |-> c.angles, flag |-> FALSE, counter |-> cnt]
         ELSE [crash |-> FALSE, prev |-> c.prev, angles |-> c.angles, flag |-> fl, counter |-> cnt]

\* body of one loop iteration from get_skeleton_data to the end of the
\* transition tests
Evaluate(e, fl, cnt, fr, prev) ==
    IF fr = NoFrame
    THEN [crash |-> FALSE, prev |-> prev, angles |-> EmptySlots, flag |-> fl, counter |-> cnt]
    ELSE LET c == ComputeSlots(e, fr, 1, prev, EmptySlots) IN
         IF ~c.ok \/ fr.missing \in CondJoints(e)
         THEN [crash |-> TRUE, prev |-> c.prev, angles |-> c.angles, flag |-> fl, counter |-> cnt]
         ELSE IF UpFires(e, fl, c.angles, fr)
         THEN [crash |-> FALSE, prev |-> c.prev, angles |-> c.angles, flag |-> TRUE, counter |-> cnt + 1]
         ELSE IF DownFires(e, fl, c.angles, fr)
         THEN [crash |-> FALSE, prev |-> c.prev, angles |-> c.angles, flag |-> FALSE, counter |-> cnt]
         ELSE [crash |-> FALSE, prev |-> c.prev, angles |-> c.angles, flag |-> fl, counter |-> cnt]

---------------------------------------------------------------------------
(* Scripted skeleton source: a recorded ball_bend_elbows session in which   *)
(* the primary angle of both sides alternates between two values, each held *)
(* for feed.hold consecutive frames, ScriptCycles full cycles; afterwards   *)
(* the source is silent.  feed.hold = 0 is the live source.                 *)

ScriptCycles == TargetReps

LiveFeed == [hold |-> 0, first |-> "none", pos |-> 0]

ScriptLen(fd) == 2 * ScriptCycles * fd.hold

ScriptFrame(fd) ==
    IF fd.pos >= ScriptLen(fd)
    THEN NoFrame
    ELSE LET k == fd.pos \div fd.hold
             second == IF fd.first = "s170" THEN "s30" ELSE "s170"
         IN  [pose |-> IF k % 2 = 0 THEN fd.first ELSE second, missing |-> "none"]

---------------------------------------------------------------------------
(* Full calibration protocol: the measurements walked, in list order, with  *)
(* their clinically normal defaults (degrees)                               *)

calibration_measurements ==
    << [name |-> "R_Shoulder_Hip_Elbow", normal_max |-> 180, normal_min |-> 10],
       [name |-> "L_Shoulder_Hip_Elbow", normal_max |-> 180, normal_min |-> 10],
       [name |-> "R_Shoulder_Hip_Wrist", normal_max |-> 150, normal_min |-> 20],
       [name |-> "L_Shoulder_Hip_Wrist", normal_max |-> 150, normal_min |-> 20] >>

Measurements == 1 .. MaxMeas

\* a dict without keys: no measurement has a max or a min
NoRom == [i \in Measurements |-> [max |-> Absent, min |-> Absent]]

Defaults(i) == [max |-> Deg(calibration_measurements[i].normal_max),
                min |-> Deg(calibration_measurements[i].normal_min)]

\* frames a sampling iteration may read: a timeout, a frame lacking a joint
\* of the measurement, or a frame whose joint triple has the raw angle
CalFrames ==
    { [kind |-> "timeout", raw |-> Absent], [kind |-> "missing", raw |-> Absent] }
        \cup { [kind |-> "pose", raw |-> r] : r \in {NaN, 0, Deg(40), Deg(55)} }

Range(q) == { q[i] : i \in 1 .. Len(q) }

\* np.max(samples) / np.min(samples) of a non-empty list
SeqMax(q) == CHOOSE x \in Range(q) : \A y \in Range(q) : x >= y

SeqMin(q) == CHOOSE x \in Range(q) : \A y \in Range(q) : x <= y

---------------------------------------------------------------------------
(* State *)

VARIABLES
    pc,                 \* position of the camera thread
    ex,                 \* exercise_name of the tracker being run
    flag,               \* phase of the run: TRUE = up, FALSE = down
    counter,            \* local repetition counter of the run
    joints,             \* frame of the current tick (NoFrame before the read)
    angles,             \* angles computed in the current tick
    previous_angles,    \* self.previous_angles, Absent = key not present
    req_exercise,       \* s.req_exercise
    stop_requested,     \* s.stop_requested
    did_training_paused,\* s.did_training_paused
    success_exercise,   \* s.success_exercise
    ex_list,            \* s.ex_list, Absent = key not present
    number_of_repetitions_in_training,
    patient_repetitions_counting_in_exercise,
    max_repetitions_in_training,
    rep,                \* s.rep
    feed,               \* skeleton source
    downSeen,           \* history: an up-to-down tick happened since the last count of the run
    staleTicks,         \* history: ticks of the run evaluated while req_exercise # ex
    oscOnly,            \* history: every frame of the run so far was one of OscPoses
    pauseSeen,          \* history: the loop idled in the current paused interval
    runs,               \* history: tracker runs the run loop has picked up
    call,               \* history: the last call of calc_angle_3d made on its own
    inside,             \* the call of calc_angle_3d the thread of the protocol is inside
    fresh,              \* history: per slot, no call has returned since the slots were emptied
    cpc,                \* position of the full calibration protocol
    midx,               \* index of the measurement in calibration_measurements
    wticks,             \* iterations of the current sampling window so far
    samples,            \* samples of the current sampling window
    raws,               \* raw angles the source produced in the current window
    captured,           \* value returned by the last capture_angle
    max_angle,          \* measure_rom: max_angle (and success flag of its result)
    min_angle,          \* measure_rom: min_angle
    rom_data,           \* run_calibration: rom_data, per measurement
    store,              \* row of the patient in PatientROM_Calibration.xlsx
    patient_rom,        \* s.patient_rom
    before,             \* s.patient_rom and s.patient_calibrated when run_calibration was called
    patient_calibrated, \* s.patient_calibrated
    spc,                \* position of calibrate_one_exercise (simplified protocol)
    calibration_mode,   \* s.calibration_mode
    calibration_ranges, \* s.calibration_ranges
    ranges,             \* value returned by calibrate_one_exercise
    tidx,               \* run_calibration_for_training: idx of the for loop
    calibration_data,   \* run_calibration_for_training: calibration_data
    exercise,           \* run_calibration_for_training: exercise of the for loop
    broke,              \* calibrate_one_exercise: the wait loop was left by a break
    sheet,              \* rows of PatientROM_Simple.xlsx below the header
    book,               \* rows of PatientROM_Calibration.xlsx below the header
    now,                \* wall clock, in minutes
    saves,              \* number of save_to_excel calls made so far
    loaded,             \* the last load_from_excel call and its result
    last_saved,         \* history: per patient, the values of the last full-protocol save
                        \* written and the number of such saves
    query,              \* the last call of a range or score function
    answer              \* the value that call returned

vars == << pc, ex, flag, counter, joints, angles, previous_angles, req_exercise,
           stop_requested, did_training_paused, success_exercise, ex_list,
           number_of_repetitions_in_training, patient_repetitions_counting_in_exercise,
           max_repetitions_in_training, rep, feed, downSeen, staleTicks, oscOnly,
           pauseSeen, runs, call, inside, fresh, cpc, midx, wticks, samples, raws, captured,
           max_angle, min_angle, rom_data, store, patient_rom, before, patient_calibrated,
           spc, calibration_mode, calibration_ranges, ranges, tidx, calibration_data, exercise, broke,
           sheet, book, now, saves, loaded, last_saved, query, answer >>

settings == << stop_requested, did_training_paused, rep >>

counters == << number_of_repetitions_in_training, patient_repetitions_counting_in_exercise >>

locals == << ex, flag, counter, joints, angles >>

history == << downSeen, staleTicks, oscOnly, pauseSeen, runs >>

run_history == << downSeen, staleTicks, oscOnly >>

pause_history == << pauseSeen >>

calculator == << call, inside, fresh >>

calibration == << cpc, midx, wticks, samples, raws, captured, max_angle, min_angle, rom_data,
                  store, patient_rom, patient_calibrated, before >>

\* state the run loop and the trackers never touch
training == << tidx, calibration_data, exercise, broke >>

simple == << spc, calibration_mode, calibration_ranges, ranges, training >>

persistence == << sheet, book, now, saves, loaded, last_saved >>

scoring == << query, answer >>

records == << persistence, scoring >>

not_tracking == << calculator, calibration, simple, records >>

\* {'right_max': 0, 'right_min': 180, 'left_max': 0, 'left_min': 180}
InitialRanges == [right_max |-> 0, right_min |-> Deg(180), left_max |-> 0, left_min |-> Deg(180)]

\* calibrate_one_exercise returning None: no ranges at all
NoRanges == [right_max |-> None, right_min |-> None, left_max |-> None, left_min |-> None]

\* call.n alternates, so that two equal calls in a row are told apart
NoCall == [slot |-> "none", raw |-> Absent, before |-> Absent, angle |-> Absent,
           first |-> FALSE, n |-> 0]

\* the thread of the protocol is not inside calc_angle_3d
Outside == [at |-> "out", raw |-> Absent, before |-> Absent, angle |-> Absent]

---------------------------------------------------------------------------
(* Calibration stores.  PatientROM_Simple.xlsx holds one row per exercise   *)
(* of every session saved: patient, date, exercise and the four ranges.     *)
(* PatientROM_Calibration.xlsx holds the rows of the full protocol:         *)
(* patient and, per measurement, max and min.  The Date of a session is     *)
(* strftime("%Y-%m-%d %H:%M"), a fixed-width text whose order is the order  *)
(* of the minutes it was taken from.                                        *)

PatientIds == {"P1", "P2"}

\* exercises of the sessions saved, in the order of s.ex_in_training
SessionExercises == <<"ball_bend_elbows", "ball_switch">>

\* ranges a session may hold for an exercise
RangeInputs ==
    { InitialRanges,
      [right_max |-> Deg(160), right_min |-> Deg(50), left_max |-> Deg(150), left_min |-> Deg(60)] }

\* calibration_data of a session that includes the first exercise: NoRanges
\* = the exercise is not a key
CalibrationInputs ==
    { d \in [Range(SessionExercises) -> RangeInputs \cup {NoRanges}] :
        /\ d[SessionExercises[1]] # NoRanges
        /\ d[SessionExercises[2]] \in {NoRanges, InitialRanges} }

\* max and min a record may hold for one measurement (Absent = no such key)
RomValues ==
    { [max |-> Absent, min |-> Absent], [max |-> Deg(90), min |-> Absent],
      [max |-> Deg(90), min |-> Deg(30)], [max |-> Deg(180), min |-> Deg(10)],
      [max |-> Deg(189), min |-> Deg(9)] }

\* rom_data of any shape
RomInputs == [Measurements -> RomValues]

\* rom_data handed to the full-protocol save
StoreRoms ==
    { [i \in Measurements |-> v] :
        v \in { [max |-> Absent, min |-> Absent], [max |-> Deg(90), min |-> Deg(30)],
                [max |-> Deg(189), min |-> Deg(9)] } }

\* rom_data.get(name_Max, normal_max), rom_data.get(name_Min, normal_min)
RowValues(rom) ==
    [i \in Measurements |->
        [max |-> IF rom[i].max = Absent THEN Defaults(i).max ELSE rom[i].max,
         min |-> IF rom[i].min = Absent THEN Defaults(i).min ELSE rom[i].min]]

\* the rows Simple_Calibration.save_to_excel appends: one per key of
\* calibration_data
RECURSIVE SessionRows(_, _, _, _)
SessionRows(patient_id, date, data, k) ==
    IF k > Len(SessionExercises) THEN << >>
    ELSE LET e == SessionExercises[k]
             rest == SessionRows(patient_id, date, data, k + 1)
         IN  IF data[e] = NoRanges THEN rest
             ELSE << [pid |-> patient_id, date |-> date, exercise |-> e,
                      ranges |-> data[e]] >> \o rest

\* df[df['PatientID'] == patient_id]
PatientRows(rows, patient_id) == { r \in Range(rows) : r.pid = patient_id }

\* sort_values('Date', ascending=False) followed by the loop that assigns
\* calibration[exercise] row after row: the row assigned last for an
\* exercise is a row of the earliest Date among its rows (any of them when
\* several rows share that Date: the sort is not a stable one)
AssignedLast(rows, e) ==
    { r \in rows : r.exercise = e /\ \A o \in rows : o.exercise = e => r.date <= o.date }

\* the dicts Simple_Calibration.load_from_excel may return for the rows
LoadedDicts(rows) ==
    { f \in [Range(SessionExercises) -> RangeInputs \cup {NoRanges}] :
        \A e \in Range(SessionExercises) :
            IF AssignedLast(rows, e) = {} THEN f[e] = NoRanges
            ELSE \E r \in AssignedLast(rows, e) : f[e] = r.ranges }

\* existing = df[df['Patient_ID'].astype(str) == str(patient_id)]
Existing(rows, patient_id) == { i \in 1 .. Len(rows) : rows[i].pid = patient_id }

\* existing.index[0]: the first of the matching rows
FirstIndex(S) == CHOOSE i \in S : \A j \in S : i <= j

NotLoaded == [op |-> "none", pid |-> "", found |-> FALSE, data |-> << >>, read |-> TRUE]

---------------------------------------------------------------------------
(* Range and score functions of Patient_Calibration.  A mean is kept as the *)
(* exact fraction num / den; percentages are in hundredths of a percent.    *)

Percent(n) == n * Scale

Sum(q) == IF q = << >> THEN 0 ELSE LET RECURSIVE Add(_)
                                       Add(k) == IF k = 0 THEN 0 ELSE q[k] + Add(k - 1)
                                   IN  Add(Len(q))

\* np.mean(values) if values else 0
MeanOrZero(q) == IF q = << >> THEN [num |-> 0, den |-> 1] ELSE [num |-> Sum(q), den |-> Len(q)]

\* variant of get_adaptive_range_for_joint: a patient whose maximum equals
\* the default maximum counts as limited
get_adaptive_range_for_joint_Inclusive(calibrated, rom, key, default_min, default_max) ==
    LET defaults == [min |-> default_min, max |-> default_max] IN
    IF ~calibrated THEN defaults
    ELSE IF \A i \in DOMAIN rom : rom[i].max = Absent /\ rom[i].min = Absent THEN defaults
    ELSE IF key \notin DOMAIN rom THEN defaults
    ELSE IF rom[key].max = Absent \/ rom[key].min = Absent THEN defaults
    ELSE LET patient_max == rom[key].max
             patient_min == rom[key].min
             range_span == patient_max - patient_min
             safe_max == patient_min + (range_span * 90) \div 100
         IN  IF patient_max <= default_max
             THEN [min |-> patient_min, max |-> safe_max]
             ELSE defaults

\* get_adaptive_range_for_joint(joint_combo, default_min, default_max) read
\* with s.patient_calibrated = calibrated and s.patient_rom = rom; key is the
\* index of the measurement joint_combo names, 0 for any other name
get_adaptive_range_for_joint(calibrated, rom, key, default_min, default_max) ==
    LET defaults == [min |-> default_min, max |-> default_max] IN
    IF ~calibrated THEN defaults
    ELSE IF \A i \in DOMAIN rom : rom[i].max = Absent /\ rom[i].min = Absent THEN defaults
    ELSE IF key \notin DOMAIN rom THEN defaults
    ELSE IF rom[key].max = Absent \/ rom[key].min = Absent THEN defaults
    ELSE LET patient_max == rom[key].max
             patient_min == rom[key].min
             range_span == patient_max - patient_min
             safe_max == patient_min + (range_span * 90) \div 100
         IN  IF patient_max < default_max
             THEN [min |-> patient_min, max |-> safe_max]
             ELSE defaults

\* defaults get_adaptive_range_for_joint is called with
DefaultMins == {Deg(20)}

DefaultMaxes == {Deg(90), Deg(150)}

\* records installed as s.patient_rom: every measurement with the same pair
InstalledRoms == { [i \in Measurements |-> v] : v \in RomValues }

\* variant of Score: the ratio is not capped
Score_Uncapped(patient_max, normal_max) == (patient_max * Percent(100)) \div normal_max

\* min(100, (patient_max / normal_max) * 100)
Score(patient_max, normal_max) ==
    LET ratio == (patient_max * Percent(100)) \div normal_max
    IN  IF ratio < Percent(100) THEN ratio ELSE Percent(100)

\* the list scores of calculate_rom_score, from measurement i on
RECURSIVE Scores(_, _)
Scores(rom, i) ==
    IF i > MaxMeas THEN << >>
    ELSE IF rom[i].max # Absent
    THEN << Score(rom[i].max, Defaults(i).max) >> \o Scores(rom, i + 1)
    ELSE Scores(rom, i + 1)

calculate_rom_score(rom) == MeanOrZero(Scores(rom, 1))

\* pairs of calculate_asymmetry
AsymmetryPairs ==
    << << "R_Shoulder_Hip_Elbow", "L_Shoulder_Hip_Elbow" >>,
       << "R_Elbow", "L_Elbow" >>,
       << "R_Wrist_Shoulder_Hip", "L_Wrist_Shoulder_Hip" >> >>

\* rom_data.get(name + "_Max", 0)
GetMax(rom, name) == IF rom[name] = Absent THEN 0 ELSE rom[name]

\* variant of Asymmetries: a pair is skipped only when both sides fail the
\* test
RECURSIVE Asymmetries_EitherSide(_, _)
Asymmetries_EitherSide(rom, k) ==
    IF k > Len(AsymmetryPairs) THEN << >>
    ELSE LET r_max == GetMax(rom, AsymmetryPairs[k][1])
             l_max == GetMax(rom, AsymmetryPairs[k][2])
         IN  IF r_max > 0 \/ l_max > 0
             THEN << Abs(r_max - l_max) >> \o Asymmetries_EitherSide(rom, k + 1)
             ELSE Asymmetries_EitherSide(rom, k + 1)

\* the list asymmetries of calculate_asymmetry, from pair k on
RECURSIVE Asymmetries(_, _)
Asymmetries(rom, k) ==
    IF k > Len(AsymmetryPairs) THEN << >>
    ELSE LET r_max == GetMax(rom, AsymmetryPairs[k][1])
             l_max == GetMax(rom, AsymmetryPairs[k][2])
         IN  IF r_max > 0 /\ l_max > 0
             THEN << Abs(r_max - l_max) >> \o Asymmetries(rom, k + 1)
             ELSE Asymmetries(rom, k + 1)

\* variant of calculate_asymmetry: a pair with one side missing is kept
calculate_asymmetry_EitherSide(rom) == MeanOrZero(Asymmetries_EitherSide(rom, 1))

calculate_asymmetry(rom) == MeanOrZero(Asymmetries(rom, 1))

\* the _Max entries of the records calculate_asymmetry is called with
\* (Absent = no such key)
AsymmetryInputs ==
    { r \in [ { AsymmetryPairs[k][n] : k \in 1 .. 3, n \in 1 .. 2 }
                -> {Absent, 0, Deg(120), Deg(140)} ] :
        /\ r["R_Shoulder_Hip_Elbow"] \in {Absent, Deg(120)}
        /\ r["L_Shoulder_Hip_Elbow"] \in {0, Deg(140)}
        /\ r["R_Wrist_Shoulder_Hip"] \in {Absent, Deg(140)}
        /\ r["L_Wrist_Shoulder_Hip"] \in {Deg(120), Deg(140)} }

NoQuery == [fn |-> "none"]

NoAnswer == [min |-> Absent, max |-> Absent]

InRun == pc \in {"loop", "pause", "sleep", "frame", "target"}

\* no calibration was run or loaded in the session: main.py sets
\* s.patient_calibrated = False and s.patient_rom = {}, the store has no row
NoRecord ==
    /\ rom_data = NoRom
    /\ store = NoRom
    /\ patient_rom = NoRom
    /\ patient_calibrated = FALSE

InitCommon ==
    /\ pc = "idle"
    /\ ex = ""
    /\ flag = TRUE
    /\ counter = 0
    /\ joints = NoFrame
    /\ angles = EmptySlots
    /\ previous_angles = EmptySlots
    /\ stop_requested = FALSE
    /\ did_training_paused = FALSE
    /\ success_exercise = FALSE
    /\ ex_list = [e \in ExerciseNames \cup {"hello_waving"} |-> Absent]
    /\ number_of_repetitions_in_training = 0
    /\ patient_repetitions_counting_in_exercise = 0
    /\ max_repetitions_in_training = 0
    /\ downSeen = FALSE
    /\ staleTicks = 0
    /\ oscOnly = TRUE
    /\ pauseSeen = FALSE
    /\ runs = 0
    /\ call = NoCall
    /\ inside = Outside
    /\ fresh = [sl \in Slots |-> TRUE]
    /\ midx = 0
    /\ wticks = 0
    /\ samples = << >>
    /\ raws = {}
    /\ captured = None
    /\ max_angle = None
    /\ min_angle = None
    /\ before = [rom |-> NoRom, calibrated |-> FALSE]
    /\ spc = "off"
    /\ calibration_mode = FALSE
    /\ calibration_ranges = InitialRanges
    /\ ranges = NoRanges
    /\ tidx = 1
    /\ calibration_data = << >>
    /\ broke = FALSE
    /\ exercise = ""
    /\ sheet = << >>
    /\ book = << >>
    /\ now = 0
    /\ saves = 0
    /\ loaded = NotLoaded
    /\ last_saved = [p \in PatientIds |-> [rom |-> NoRom, writes |-> 0]]
    /\ query = NoQuery
    /\ answer = NoAnswer

Init ==
    /\ InitCommon
    /\ NoRecord
    /\ cpc = "off"
    /\ req_exercise = ""
    /\ rep \in 1 .. MaxRep
    /\ feed = LiveFeed

---------------------------------------------------------------------------
(* Camera thread: run loop *)

\* run(): if s.req_exercise != "": ex = s.req_exercise (lines 143-144); the
\* runs of a behaviour are bounded
PickRequest ==
    /\ UNCHANGED not_tracking
    /\ pc = "idle"
    /\ req_exercise # ""
    /\ max_repetitions_in_training < MaxRuns * rep
    /\ runs < MaxRuns
    /\ runs' = IF req_exercise # "hello_waving" THEN runs + 1 ELSE runs
    /\ ex' = req_exercise
    /\ pc' = "picked"
    /\ UNCHANGED << flag, counter, joints, angles, previous_angles, req_exercise, settings,
                    success_exercise, ex_list, counters, max_repetitions_in_training,
                    feed, run_history, pause_history >>

\* run(): if s.req_exercise != "hello_waving" (line 147), a second read of
\* the request after the print of line 145: the announcement is played, or
\* the method is called at once.  The third read (audio, line 148) only
\* chooses the recording whose duration is slept.
AnnounceTest ==
    /\ UNCHANGED not_tracking
    /\ pc = "picked"
    /\ pc' = IF req_exercise # "hello_waving" THEN "announce" ELSE "call"
    /\ UNCHANGED << locals, previous_angles, req_exercise, settings, success_exercise,
                    ex_list, counters, max_repetitions_in_training, feed, history >>

\* variant of EnterMethod: the run starts with flag = False
EnterMethod_StartDown ==
    IF ex = "hello_waving"
    THEN /\ pc' = "wave"
         /\ UNCHANGED << flag, counter, run_history >>
    ELSE /\ flag' = FALSE
         /\ counter' = 0
         /\ downSeen' = FALSE
         /\ staleTicks' = 0
         /\ oscOnly' = TRUE
         /\ pc' = "loop"

\* getattr(self, ex)(): the method named by ex is called; hello_waving goes
\* to its loop, a tracker initialises its locals
EnterMethod ==
    IF ex = "hello_waving"
    THEN /\ pc' = "wave"
         /\ UNCHANGED << flag, counter, run_history >>
    ELSE /\ flag' = TRUE
         /\ counter' = 0
         /\ downSeen' = FALSE
         /\ staleTicks' = 0
         /\ oscOnly' = TRUE
         /\ pc' = "loop"

\* run(): after the announcement s.max_repetitions_in_training += s.rep
\* (line 150), which the branch without announcement skips, and the call of
\* the method (line 151)
CallExercise ==
    /\ UNCHANGED not_tracking
    /\ pc \in {"announce", "call"}
    /\ max_repetitions_in_training' =
          IF pc = "announce" THEN max_repetitions_in_training + rep
          ELSE max_repetitions_in_training
    /\ EnterMethod
    /\ UNCHANGED runs
    /\ UNCHANGED << ex, joints, angles, previous_angles, req_exercise, settings,
                    success_exercise, ex_list, counters, feed, pause_history >>

\* hello_waving: while s.req_exercise == "hello_waving"
WaveCheck ==
    /\ UNCHANGED not_tracking
    /\ pc = "wave"
    /\ pc' = IF req_exercise = "hello_waving" THEN "waveframe" ELSE "ret"
    /\ UNCHANGED << locals, previous_angles, req_exercise, settings, success_exercise,
                    ex_list, counters, max_repetitions_in_training, feed, history >>

\* right_shoulder.y < right_wrist.y != 0
Waved(fr) ==
    /\ Y("hello_waving", fr.pose, "R_shoulder") < Y("hello_waving", fr.pose, "R_wrist")
    /\ Y("hello_waving", fr.pose, "R_wrist") # 0

\* hello_waving: get_skeleton_data and the test of the frame; a frame without
\* R_shoulder or R_wrist raises KeyError.  s.waved_has_tool is True from
\* main.py on, the assignment of line 439 leaves it so.
WaveTick ==
    /\ UNCHANGED not_tracking
    /\ pc = "waveframe"
    /\ feed.hold = 0
    /\ \E fr \in Frames("hello_waving") \cup {NoFrame} :
          IF fr = NoFrame
          THEN pc' = "wave" /\ req_exercise' = req_exercise
          ELSE IF fr.missing \in {"R_shoulder", "R_wrist"}
          THEN pc' = "crashed" /\ req_exercise' = req_exercise
          ELSE /\ pc' = "wave"
               /\ req_exercise' = IF Waved(fr) THEN "" ELSE req_exercise
    /\ UNCHANGED << locals, previous_angles, settings, success_exercise, ex_list, counters,
                    max_repetitions_in_training, feed, history >>

\* run(): the exercise method returned
ReturnToRun ==
    /\ UNCHANGED not_tracking
    /\ pc = "ret"
    /\ req_exercise' = ""
    /\ pc' = "idle"
    /\ UNCHANGED << locals, previous_angles, settings, success_exercise, ex_list, counters,
                    max_repetitions_in_training, feed, history >>

---------------------------------------------------------------------------
(* Camera thread: tracking loop, shared by the four trackers *)

\* variant of LoopCheck: the loop runs while any exercise is requested
LoopCheck_AnyRequest ==
    /\ UNCHANGED not_tracking
    /\ pc = "loop"
    /\ pc' = IF req_exercise # "" THEN "pause" ELSE "finish"
    /\ UNCHANGED << locals, previous_angles, req_exercise, settings, success_exercise,
                    ex_list, counters, max_repetitions_in_training, feed, history >>

\* while s.req_exercise == exercise_name
LoopCheck ==
    /\ UNCHANGED not_tracking
    /\ pc = "loop"
    /\ pc' = IF req_exercise = ex THEN "pause" ELSE "finish"
    /\ UNCHANGED << locals, previous_angles, req_exercise, settings, success_exercise,
                    ex_list, counters, max_repetitions_in_training, feed, history >>

\* while s.did_training_paused and not s.stop_requested: the test of the
\* inner loop, which enters an idle iteration (the sleep) or leaves the loop
PauseCheck ==
    /\ UNCHANGED not_tracking
    /\ pc = "pause"
    /\ pc' = IF did_training_paused /\ ~stop_requested THEN "sleep" ELSE "frame"
    /\ UNCHANGED << locals, previous_angles, req_exercise, settings, success_exercise,
                    ex_list, counters, max_repetitions_in_training, feed, history >>

\* rest of an idle iteration, after time.sleep(0.01): previous_angles = {}
\* when it is not empty already, whatever was written to the flags during
\* the sleep, and back to the test of the inner loop
PauseSleep ==
    /\ UNCHANGED not_tracking
    /\ pc = "sleep"
    /\ previous_angles' = EmptySlots
    /\ pauseSeen' = did_training_paused
    /\ pc' = "pause"
    /\ UNCHANGED runs
    /\ UNCHANGED << locals, req_exercise, settings, success_exercise, ex_list, counters,
                    max_repetitions_in_training, feed, run_history >>

\* effect of one loop iteration on frame fr
TickOn(fr) ==
    LET r == Evaluate(ex, flag, counter, fr, previous_angles)
        n == r.counter - counter
    IN  /\ joints' = fr
        /\ angles' = r.angles
        /\ previous_angles' = r.prev
        /\ flag' = r.flag
        /\ counter' = r.counter
        /\ number_of_repetitions_in_training' = number_of_repetitions_in_training + n
        /\ patient_repetitions_counting_in_exercise' = patient_repetitions_counting_in_exercise + n
        /\ downSeen' = IF n > 0 THEN FALSE
                       ELSE IF flag /\ ~r.flag /\ DownCond(ex, r.angles, fr) THEN TRUE
                       ELSE downSeen
        /\ staleTicks' = IF req_exercise # ex /\ staleTicks < 2 THEN staleTicks + 1 ELSE staleTicks
        /\ oscOnly' = (oscOnly /\ (fr = NoFrame \/ fr.pose \in OscPoses))
        /\ UNCHANGED runs
        /\ UNCHANGED pause_history
        /\ pc' = IF r.crash THEN "crashed" ELSE "target"

\* get_skeleton_data and the evaluation of the frame, live source
Tick ==
    /\ UNCHANGED not_tracking
    /\ pc = "frame"
    /\ feed.hold = 0
    /\ \E fr \in Frames(ex) \cup {NoFrame} : TickOn(fr)
    /\ UNCHANGED << ex, req_exercise, settings, success_exercise, ex_list,
                    max_repetitions_in_training, feed >>

\* variant of TargetCheck: the target is one repetition too late
TargetCheck_Late ==
    /\ UNCHANGED not_tracking
    /\ pc = "target"
    /\ IF counter = rep + 1
       THEN /\ req_exercise' = ""
            /\ success_exercise' = TRUE
            /\ pc' = "finish"
       ELSE /\ UNCHANGED << req_exercise, success_exercise >>
            /\ pc' = "loop"
    /\ joints' = NoFrame
    /\ angles' = EmptySlots
    /\ UNCHANGED << ex, flag, counter, previous_angles, settings, ex_list, counters,
                    max_repetitions_in_training, feed, history >>

\* if counter == s.rep
TargetCheck ==
    /\ UNCHANGED not_tracking
    /\ pc = "target"
    /\ IF counter = rep
       THEN /\ req_exercise' = ""
            /\ success_exercise' = TRUE
            /\ pc' = "finish"
       ELSE /\ UNCHANGED << req_exercise, success_exercise >>
            /\ pc' = "loop"
    /\ joints' = NoFrame
    /\ angles' = EmptySlots
    /\ UNCHANGED << ex, flag, counter, previous_angles, settings, ex_list, counters,
                    max_repetitions_in_training, feed, history >>

\* s.ex_list.update({exercise_name: counter})
Finish ==
    /\ UNCHANGED not_tracking
    /\ pc = "finish"
    /\ ex_list' = [ex_list EXCEPT ![ex] = counter]
    /\ pc' = "ret"
    /\ UNCHANGED << locals, previous_angles, req_exercise, settings, success_exercise,
                    counters, max_repetitions_in_training, feed, history >>

---------------------------------------------------------------------------
(* Collaborators: writes of the request flags *)

\* requestExercise(id) of the session control surface: a collaborator writes
\* s.req_exercise, a name equal to the current one included
RequestExercise(e) ==
    /\ UNCHANGED not_tracking
    /\ req_exercise' = e
    /\ staleTicks' = IF e = ex THEN 0 ELSE staleTicks
    /\ UNCHANGED runs
    /\ UNCHANGED << pc, locals, previous_angles, settings, success_exercise, ex_list,
                    counters, max_repetitions_in_training, feed, downSeen, oscOnly,
                    pause_history >>

\* calibrate_one_exercise after its wait loop: s.req_exercise = "" and
\* s.calibration_mode = False
ClearRequest ==
    /\ UNCHANGED << calculator, calibration, spc, calibration_ranges, ranges, training, records >>
    /\ req_exercise' = ""
    /\ calibration_mode' = FALSE
    /\ UNCHANGED << pc, locals, previous_angles, settings, success_exercise, ex_list,
                    counters, max_repetitions_in_training, feed, history >>

RequestStop ==
    /\ UNCHANGED not_tracking
    /\ ~stop_requested
    /\ stop_requested' = TRUE
    /\ UNCHANGED << pc, locals, previous_angles, req_exercise, did_training_paused, rep,
                    success_exercise, ex_list, counters, max_repetitions_in_training,
                    feed, history >>

RequestPause ==
    /\ UNCHANGED not_tracking
    /\ ~did_training_paused
    /\ did_training_paused' = TRUE
    /\ pauseSeen' = FALSE
    /\ UNCHANGED runs
    /\ UNCHANGED << pc, locals, previous_angles, req_exercise, stop_requested, rep,
                    success_exercise, ex_list, counters, max_repetitions_in_training,
                    feed, run_history >>

Resume ==
    /\ UNCHANGED not_tracking
    /\ did_training_paused
    /\ did_training_paused' = FALSE
    /\ pauseSeen' = FALSE
    /\ UNCHANGED runs
    /\ UNCHANGED << pc, locals, previous_angles, req_exercise, stop_requested, rep,
                    success_exercise, ex_list, counters, max_repetitions_in_training,
                    feed, run_history >>

\* exercises a collaborator requests: any exercise or the greeting before
\* the camera thread picked one, then the tracked exercise or one of the
\* first two of a session, and the greeting while run() is between its reads
\* of the request
RequestNames ==
    IF ex = "" THEN ExerciseNames \cup {"hello_waving"}
    ELSE {ex, "ball_bend_elbows", "ball_switch"}
             \cup (IF pc = "picked" THEN {"hello_waving"} ELSE {})

Request == \E e \in RequestNames : RequestExercise(e)

Next ==
    \/ PickRequest
    \/ AnnounceTest
    \/ CallExercise
    \/ LoopCheck
    \/ PauseCheck
    \/ PauseSleep
    \/ Tick
    \/ TargetCheck
    \/ Finish
    \/ ReturnToRun
    \/ WaveCheck
    \/ WaveTick
    \/ Request
    \/ ClearRequest
    \/ RequestStop
    \/ RequestPause
    \/ Resume

Spec == Init /\ [][Next]_vars

---------------------------------------------------------------------------
(* Scripted session: the source replays the script, no collaborator acts *)

InitScript ==
    /\ InitCommon
    /\ NoRecord
    /\ cpc = "off"
    /\ req_exercise = "ball_bend_elbows"
    /\ rep = TargetReps
    /\ feed \in { [hold |-> h, first |-> f, pos |-> 0] : h \in 1 .. MaxHold, f \in {"s170", "s30"} }

\* get_skeleton_data and the evaluation of the frame, scripted source
TickScript ==
    /\ UNCHANGED not_tracking
    /\ pc = "frame"
    /\ feed.hold > 0
    /\ TickOn(ScriptFrame(feed))
    /\ feed' = [feed EXCEPT !.pos = IF feed.pos < ScriptLen(feed) THEN feed.pos + 1 ELSE feed.pos]
    /\ UNCHANGED << ex, req_exercise, settings, success_exercise, ex_list,
                    max_repetitions_in_training >>

NextScript ==
    \/ PickRequest
    \/ AnnounceTest
    \/ CallExercise
    \/ LoopCheck
    \/ PauseCheck
    \/ TickScript
    \/ TargetCheck
    \/ Finish
    \/ ReturnToRun

SpecScript == InitScript /\ [][NextScript]_vars

---------------------------------------------------------------------------
(* Angle calculator on its own.  The camera thread calls calc_angle_3d on   *)
(* its slots and, in the idle loop of a paused tracker, empties the slot    *)
(* map; the thread of the full protocol calls calc_angle_3d on the slot     *)
(* "calibration".  The raw geometric angle is any (NaN for a zero-length    *)
(* vector).                                                                 *)

CameraSlots == {"R_1"}

RawInputs == {NaN, 0, Deg(90), Deg(180)}

tracking == << pc, ex, flag, counter, joints, angles, req_exercise, stop_requested,
               did_training_paused, success_exercise, ex_list,
               number_of_repetitions_in_training, patient_repetitions_counting_in_exercise,
               max_repetitions_in_training, rep, feed, history, records >>

InitCalc ==
    /\ InitCommon
    /\ NoRecord
    /\ cpc = "off"
    /\ req_exercise = ""
    /\ rep = TargetReps
    /\ feed = LiveFeed

\* the call that returns: angle is the value returned, before the value the
\* slot held at the membership test
Returned(sl, raw, prev, angle) ==
    [slot |-> sl, raw |-> raw, before |-> prev, angle |-> angle,
     first |-> fresh[sl], n |-> 1 - call.n]

\* one call of calc_angle_3d by the camera thread, with joint_name = sl; the
\* idle loop runs on the same thread, between two such calls
CalcCall ==
    \E sl \in CameraSlots, raw \in RawInputs :
        LET r == calc_angle_3d(raw, previous_angles[sl]) IN
        /\ previous_angles' = [previous_angles EXCEPT ![sl] = r.stored]
        /\ call' = Returned(sl, raw, previous_angles[sl], r.angle)
        /\ fresh' = [fresh EXCEPT ![sl] = FALSE]
        /\ UNCHANGED << inside, tracking, calibration, simple >>

\* calc_angle_3d(j1, j2, j3, "calibration") on the thread of the protocol,
\* up to the membership test: joint_name in self.previous_angles
CalcTest ==
    /\ inside.at = "out"
    /\ \E raw \in RawInputs :
          inside' = [at |-> IF previous_angles["calibration"] # Absent THEN "limit" ELSE "store",
                     raw |-> raw, before |-> previous_angles["calibration"],
                     angle |-> calc_angle_3d(raw, Absent).stored]
    /\ UNCHANGED << previous_angles, call, fresh, tracking, calibration, simple >>

\* limit_angle_jump called after the membership test: the read of
\* self.previous_angles[joint_name] raises KeyError when the map was emptied
\* since the test, and calc_angle_3d then returns None with nothing stored
CalcLimit ==
    /\ inside.at = "limit"
    /\ IF previous_angles["calibration"] = Absent
       THEN /\ call' = Returned("calibration", inside.raw, inside.before, None)
            /\ fresh' = [fresh EXCEPT !["calibration"] = FALSE]
            /\ inside' = Outside
       ELSE /\ inside' = [inside EXCEPT
                             !.at = "store",
                             !.angle = calc_angle_3d(inside.raw,
                                                     previous_angles["calibration"]).stored]
            /\ UNCHANGED << call, fresh >>
    /\ UNCHANGED << previous_angles, tracking, calibration, simple >>

\* self.previous_angles[joint_name] = angle ; return round(angle, 2)
CalcStore ==
    /\ inside.at = "store"
    /\ previous_angles' = [previous_angles EXCEPT !["calibration"] = inside.angle]
    /\ call' = Returned("calibration", inside.raw, inside.before, inside.angle)
    /\ fresh' = [fresh EXCEPT !["calibration"] = FALSE]
    /\ inside' = Outside
    /\ UNCHANGED << tracking, calibration, simple >>

\* if self.previous_angles != {}: self.previous_angles = {}
PauseClear ==
    /\ previous_angles # EmptySlots
    /\ previous_angles' = EmptySlots
    /\ fresh' = [sl \in Slots |-> TRUE]
    /\ UNCHANGED << tracking, call, inside, calibration, simple >>

NextCalc ==
    \/ CalcCall
    \/ CalcTest
    \/ CalcLimit
    \/ CalcStore
    \/ PauseClear

SpecCalc == InitCalc /\ [][NextCalc]_vars

---------------------------------------------------------------------------
(* Full calibration protocol (Patient_Calibration): run_calibration,        *)
(* measure_rom and capture_angle, with the stop request of the session      *)
(* control.  A sampling window lasts 4 s: it ends after at least one and at *)
(* most MaxWindow iterations.                                               *)

tracker == << pc, ex, flag, counter, joints, angles, req_exercise, did_training_paused,
              rep, success_exercise, ex_list, number_of_repetitions_in_training,
              patient_repetitions_counting_in_exercise, max_repetitions_in_training,
              feed, history, calculator, simple, records >>

\* capture_angle is at the head of its loop
AtHead == cpc \in {"maxwin", "minwin"}

\* capture_angle waits in get_skeleton_data
Reading == cpc \in {"maxread", "minread"}

InWindow == AtHead \/ Reading

\* run_calibration up to its loop
StartCalibration ==
    /\ cpc = "off"
    /\ patient_calibrated' = FALSE
    /\ rom_data' = NoRom
    /\ midx' = 1
    /\ cpc' = "boundary"
    /\ before' = [rom |-> patient_rom, calibrated |-> patient_calibrated]
    /\ UNCHANGED << tracker, stop_requested, previous_angles, wticks, samples, raws, captured,
                    max_angle, min_angle, store, patient_rom >>

\* head of the for loop: the next measurement if any, the stop test, and
\* measure_rom up to its first capture_angle
Boundary ==
    /\ cpc = "boundary"
    /\ IF midx > MaxMeas
       THEN /\ cpc' = "save"
            /\ UNCHANGED << wticks, samples, raws, max_angle, min_angle >>
       ELSE IF stop_requested
       THEN /\ cpc' = "cancelled"
            /\ UNCHANGED << wticks, samples, raws, max_angle, min_angle >>
       ELSE /\ cpc' = "maxwin"
            /\ wticks' = 0
            /\ samples' = << >>
            /\ raws' = {}
            /\ max_angle' = None
            /\ min_angle' = None
    /\ UNCHANGED << tracker, stop_requested, previous_angles, midx, captured, rom_data,
                    store, patient_rom, patient_calibrated,
                    before >>

\* head of an iteration of the loop of capture_angle whose time test passed:
\* the stop test, then the call of get_skeleton_data
WindowTest ==
    /\ AtHead
    /\ wticks < MaxWindow
    /\ IF stop_requested
       THEN /\ captured' = None
            /\ cpc' = IF cpc = "maxwin" THEN "maxret" ELSE "minret"
       ELSE /\ captured' = captured
            /\ cpc' = IF cpc = "maxwin" THEN "maxread" ELSE "minread"
    /\ UNCHANGED << previous_angles, samples, raws, wticks >>
    /\ UNCHANGED << tracker, stop_requested, midx, max_angle, min_angle, rom_data, store,
                    patient_rom, patient_calibrated,
                    before >>

\* rest of the iteration: get_skeleton_data returns, the angle is computed
\* and kept when it is valid
Sample ==
    /\ Reading
    /\ \E fr \in CalFrames :
          IF fr.kind # "pose"
          THEN UNCHANGED << previous_angles, samples, raws >>
          ELSE LET r == calc_angle_3d(fr.raw, previous_angles["calibration"]) IN
               /\ previous_angles' = [previous_angles EXCEPT !["calibration"] = r.stored]
               /\ samples' = IF r.angle # None /\ r.angle > 0
                             THEN Append(samples, r.angle) ELSE samples
               /\ raws' = IF IsNum(fr.raw) THEN raws \cup {fr.raw} ELSE raws
    /\ wticks' = wticks + 1
    /\ cpc' = IF cpc = "maxread" THEN "maxwin" ELSE "minwin"
    /\ UNCHANGED captured
    /\ UNCHANGED << tracker, stop_requested, midx, max_angle, min_angle, rom_data, store,
                    patient_rom, patient_calibrated,
                    before >>

\* the time test of capture_angle fails: the window is over
Expire ==
    /\ AtHead
    /\ wticks >= 1
    /\ captured' = IF samples = << >> THEN None
                   ELSE IF cpc = "maxwin" THEN SeqMax(samples) ELSE SeqMin(samples)
    /\ cpc' = IF cpc = "maxwin" THEN "maxret" ELSE "minret"
    /\ UNCHANGED << tracker, stop_requested, previous_angles, midx, wticks, samples, raws,
                    max_angle, min_angle, rom_data, store, patient_rom, patient_calibrated,
                    before >>

\* measure_rom after its first capture_angle
MaxReturn ==
    /\ cpc = "maxret"
    /\ max_angle' = captured
    /\ IF captured = None
       THEN /\ cpc' = "record"
            /\ UNCHANGED << wticks, samples, raws >>
       ELSE /\ cpc' = "minwin"
            /\ wticks' = 0
            /\ samples' = << >>
            /\ raws' = {}
    /\ UNCHANGED << tracker, stop_requested, previous_angles, midx, captured, min_angle,
                    rom_data, store, patient_rom, patient_calibrated,
                    before >>

\* variant of MinReturn: max and min are not swapped
MinReturn_NoSwap ==
    /\ cpc = "minret"
    /\ max_angle' = max_angle
    /\ min_angle' = captured
    /\ cpc' = "record"
    /\ UNCHANGED << tracker, stop_requested, previous_angles, midx, wticks, samples, raws,
                    captured, rom_data, store, patient_rom, patient_calibrated,
                    before >>

\* measure_rom after its second capture_angle
MinReturn ==
    /\ cpc = "minret"
    /\ IF captured # None /\ max_angle < captured
       THEN max_angle' = captured /\ min_angle' = max_angle
       ELSE max_angle' = max_angle /\ min_angle' = captured
    /\ cpc' = "record"
    /\ UNCHANGED << tracker, stop_requested, previous_angles, midx, wticks, samples, raws,
                    captured, rom_data, store, patient_rom, patient_calibrated,
                    before >>

\* success of the tuple measure_rom returns
Success == max_angle # None /\ min_angle # None

\* variant of Record: a failed measurement records nothing
Record_SkipsFailed ==
    /\ cpc = "record"
    /\ rom_data' = IF Success
                   THEN [rom_data EXCEPT ![midx] = [max |-> max_angle, min |-> min_angle]]
                   ELSE rom_data
    /\ midx' = midx + 1
    /\ cpc' = "boundary"
    /\ UNCHANGED << tracker, stop_requested, previous_angles, wticks, samples, raws, captured,
                    max_angle, min_angle, store, patient_rom, patient_calibrated,
                    before >>

\* run_calibration after measure_rom: the pair measured, or the defaults
Record ==
    /\ cpc = "record"
    /\ rom_data' = [rom_data EXCEPT ![midx] =
                        IF Success THEN [max |-> max_angle, min |-> min_angle]
                        ELSE Defaults(midx)]
    /\ midx' = midx + 1
    /\ cpc' = "boundary"
    /\ UNCHANGED << tracker, stop_requested, previous_angles, wticks, samples, raws, captured,
                    max_angle, min_angle, store, patient_rom, patient_calibrated,
                    before >>

\* run_calibration after its loop: save_to_excel, which writes the row of
\* the patient (wb.save) or swallows the failure of the write, and returns
Save ==
    /\ cpc = "save"
    /\ store' \in {rom_data, store}
    /\ cpc' = "install"
    /\ UNCHANGED << tracker, stop_requested, previous_angles, midx, wticks, samples, raws,
                    captured, max_angle, min_angle, rom_data, patient_rom,
                    patient_calibrated, before >>

\* run_calibration after save_to_excel has returned: s.patient_rom = rom_data ;
\* s.patient_calibrated = True, and True is returned
Install ==
    /\ cpc = "install"
    /\ patient_rom' = rom_data
    /\ patient_calibrated' = TRUE
    /\ cpc' = "done"
    /\ UNCHANGED << tracker, stop_requested, previous_angles, midx, wticks, samples, raws,
                    captured, max_angle, min_angle, rom_data, store, before >>

\* Patient_Calibration(): when the workbook does not exist ensure_excel_exists
\* calls create_excel_file, which reads self.calibration_measurements before
\* __init__ has assigned it and raises AttributeError (cpc = "raised": there
\* is no protocol object and the workbook is not created)
InitCal ==
    /\ InitCommon
    /\ NoRecord
    /\ cpc \in {"off", "raised"}
    /\ req_exercise = ""
    /\ rep = TargetReps
    /\ feed = LiveFeed

NextCal ==
    \/ StartCalibration
    \/ Boundary
    \/ WindowTest
    \/ Sample
    \/ Expire
    \/ MaxReturn
    \/ MinReturn
    \/ Record
    \/ Save
    \/ Install
    \/ RequestStop

SpecCal == InitCal /\ [][NextCal]_vars

---------------------------------------------------------------------------
(* Simplified calibration (Simple_Calibration.calibrate_one_exercise) next  *)
(* to the camera thread: one repetition of one exercise.                    *)

camera == << pc, locals, previous_angles, did_training_paused, rep, success_exercise,
             ex_list, number_of_repetitions_in_training, max_repetitions_in_training,
             feed, history, records >>

\* s.chosen_patient_ID of the session
chosen_patient_ID == "P1"

\* d[k] = v of a dict whose items are kept in insertion order
DictSet(d, k, v) ==
    IF \E i \in 1 .. Len(d) : d[i].exercise = k
    THEN [i \in 1 .. Len(d) |-> IF d[i].exercise = k THEN [exercise |-> k, ranges |-> v]
                                 ELSE d[i]]
    ELSE Append(d, [exercise |-> k, ranges |-> v])

\* if ranges: calibration_data[exercise] = ranges
Recorded(d, k, v) == IF v # NoRanges THEN DictSet(d, k, v) ELSE d

\* the rows save_to_excel appends: one per item of calibration_data
DictRows(patient_id, date, d) ==
    [i \in 1 .. Len(d) |-> [pid |-> patient_id, date |-> date,
                             exercise |-> d[i].exercise, ranges |-> d[i].ranges]]

\* s.ex_in_training: any exercise first, then one with a pair per side
TrainingExercises(idx) == IF idx = 1 THEN ExerciseNames ELSE {"ball_bend_elbows"}

\* run_calibration_for_training called with an empty s.ex_in_training:
\* False is returned at once
TrainingEmpty ==
    /\ spc = "off"
    /\ tidx = 1
    /\ spc' = "empty"
    /\ UNCHANGED << camera, req_exercise, stop_requested,
                    patient_repetitions_counting_in_exercise, calculator, calibration,
                    calibration_mode, calibration_ranges, ranges, training >>

\* head of the for loop of run_calibration_for_training: the next exercise
\* of s.ex_in_training and the stop test, which returns False; else the
\* exercise is announced
TrainingHead ==
    /\ spc = "off"
    /\ IF stop_requested
       THEN /\ spc' = "cancelled"
            /\ UNCHANGED exercise
       ELSE /\ \E e \in TrainingExercises(tidx) : exercise' = e
            /\ spc' = "start"
    /\ UNCHANGED << camera, req_exercise, stop_requested,
                    patient_repetitions_counting_in_exercise, calculator, calibration,
                    calibration_mode, calibration_ranges, ranges, tidx, calibration_data,
                    broke >>

\* calibrate_one_exercise up to its first wait: the request and the reset of
\* the count and of the ranges, with no stop test of its own
CalibrateStart ==
    /\ spc = "start"
    /\ req_exercise' = exercise
    /\ patient_repetitions_counting_in_exercise' = 0
    /\ calibration_mode' = TRUE
    /\ calibration_ranges' = InitialRanges
    /\ broke' = FALSE
    /\ spc' = "wait"
    /\ UNCHANGED << camera, stop_requested, calculator, calibration, ranges, tidx,
                    calibration_data, exercise >>

\* the wait loop is left: by its condition when a repetition was counted,
\* else by a break (stop was requested, or the 30 s are over)
CalibrateExit ==
    /\ spc = "wait"
    /\ broke' = (patient_repetitions_counting_in_exercise < 1)
    /\ spc' = "stop"
    /\ UNCHANGED << camera, req_exercise, stop_requested,
                    patient_repetitions_counting_in_exercise, calculator, calibration,
                    calibration_mode, calibration_ranges, ranges, tidx, calibration_data,
                    exercise >>

\* s.req_exercise = "" ; s.calibration_mode = False
CalibrateEnd ==
    /\ spc = "stop"
    /\ req_exercise' = ""
    /\ calibration_mode' = FALSE
    /\ spc' = "return"
    /\ UNCHANGED << camera, stop_requested, patient_repetitions_counting_in_exercise,
                    calculator, calibration, calibration_ranges, ranges, training >>

\* the ranges returned, or None
CalibrateReturn ==
    /\ spc = "return"
    /\ ranges' = IF patient_repetitions_counting_in_exercise >= 1
                 THEN calibration_ranges ELSE NoRanges
    /\ spc' = "ended"
    /\ UNCHANGED << camera, req_exercise, stop_requested,
                    patient_repetitions_counting_in_exercise, calculator, calibration,
                    calibration_mode, calibration_ranges, training >>

\* run_calibration_for_training after calibrate_one_exercise has returned:
\* the ranges are recorded unless the call returned None, and the for loop
\* goes on to its head for the next exercise of the session, or to the
\* save after the last one
TrainingNext ==
    /\ spc = "ended"
    /\ calibration_data' = Recorded(calibration_data, exercise, ranges)
    /\ IF tidx < MaxTraining
       THEN tidx' = tidx + 1 /\ spc' = "off"
       ELSE tidx' = tidx /\ spc' = "save"
    /\ UNCHANGED << camera, req_exercise, stop_requested,
                    patient_repetitions_counting_in_exercise, calculator, calibration,
                    calibration_mode, calibration_ranges, ranges, exercise, broke >>

\* save_to_excel of the simplified protocol: one row per key is appended
\* and the workbook written (wb.save), or the failure is swallowed
TrainingSave ==
    /\ spc = "save"
    /\ \E written \in BOOLEAN :
          sheet' = IF written
                   THEN sheet \o DictRows(chosen_patient_ID, now, calibration_data)
                   ELSE sheet
    /\ spc' = "install"
    /\ UNCHANGED << pc, locals, previous_angles, did_training_paused, rep,
                    success_exercise, ex_list, number_of_repetitions_in_training,
                    max_repetitions_in_training, feed, history, scoring, book, now, saves,
                    loaded, last_saved, req_exercise, stop_requested,
                    patient_repetitions_counting_in_exercise, calculator, calibration,
                    calibration_mode, calibration_ranges, ranges, training >>

\* run_calibration_for_training after save_to_excel has returned:
\* s.patient_rom = calibration_data ; s.patient_calibrated = True, and True
\* is returned
TrainingInstall ==
    /\ spc = "install"
    /\ patient_rom' = calibration_data
    /\ patient_calibrated' = TRUE
    /\ spc' = "done"
    /\ UNCHANGED << camera, req_exercise, stop_requested,
                    patient_repetitions_counting_in_exercise, calculator, cpc, midx, wticks,
                    samples, raws, captured, max_angle, min_angle, rom_data, store, before,
                    calibration_mode, calibration_ranges, ranges, training >>

InitSimple ==
    /\ InitCommon
    /\ NoRecord
    /\ cpc = "off"
    /\ req_exercise = ""
    /\ rep \in 1 .. MaxRep
    /\ feed = LiveFeed

NextSimple ==
    \/ TrainingEmpty
    \/ TrainingHead
    \/ CalibrateStart
    \/ CalibrateExit
    \/ CalibrateEnd
    \/ CalibrateReturn
    \/ TrainingNext
    \/ TrainingSave
    \/ TrainingInstall
    \/ PickRequest
    \/ AnnounceTest
    \/ CallExercise
    \/ LoopCheck
    \/ PauseCheck
    \/ Tick
    \/ TargetCheck
    \/ Finish
    \/ ReturnToRun
    \/ RequestStop

SpecSimple == InitSimple /\ [][NextSimple]_vars

---------------------------------------------------------------------------
(* Calibration stores: saves and loads of the two protocols, for any        *)
(* patients and any records, and the minutes that pass between them.  A     *)
(* save whose workbook cannot be read or written raises inside              *)
(* save_to_excel, which catches the exception and leaves the file as it was.*)

session == << pc, locals, previous_angles, req_exercise, settings, success_exercise,
              ex_list, counters, max_repetitions_in_training, feed, history, calculator,
              calibration, simple >>

\* Simple_Calibration.save_to_excel(patient_id, calibration_data)
SaveSession ==
    /\ saves < MaxSaves
    /\ \E patient_id \in PatientIds, data \in CalibrationInputs, written \in BOOLEAN :
          sheet' = IF written THEN sheet \o SessionRows(patient_id, now, data, 1) ELSE sheet
    /\ saves' = saves + 1
    /\ loaded' = NotLoaded
    /\ UNCHANGED << session, scoring, book, now, last_saved >>

\* Simple_Calibration.load_from_excel(patient_id); read = FALSE: reading the
\* workbook raises, the exception is caught and None is returned
LoadSession ==
    /\ \E patient_id \in PatientIds, read \in BOOLEAN :
          LET rows == PatientRows(sheet, patient_id) IN
          IF ~read \/ rows = {}
          THEN loaded' = [op |-> "simple", pid |-> patient_id, found |-> FALSE,
                          data |-> << >>, read |-> read]
          ELSE \E f \in LoadedDicts(rows) :
                  loaded' = [op |-> "simple", pid |-> patient_id, found |-> TRUE,
                             data |-> f, read |-> TRUE]
    /\ UNCHANGED << session, scoring, sheet, book, now, saves, last_saved >>

\* variant of SaveRom: the row is always added below the last one
SaveRom_Appends ==
    /\ saves < MaxSaves
    /\ \E patient_id \in PatientIds, rom \in StoreRoms, written \in BOOLEAN :
          LET row == [pid |-> patient_id, rom |-> RowValues(rom)]
          IN  /\ book' = IF ~written THEN book ELSE Append(book, row)
              /\ last_saved' = IF written
                               THEN [last_saved EXCEPT ![patient_id] =
                                        [rom |-> row.rom, writes |-> @.writes + 1]]
                               ELSE last_saved
    /\ saves' = saves + 1
    /\ loaded' = NotLoaded
    /\ UNCHANGED << session, scoring, sheet, now >>

\* Patient_Calibration.save_to_excel(patient_id, rom_data, ...)
SaveRom ==
    /\ saves < MaxSaves
    /\ \E patient_id \in PatientIds, rom \in StoreRoms, written \in BOOLEAN :
          LET existing == Existing(book, patient_id)
              row == [pid |-> patient_id, rom |-> RowValues(rom)]
          IN  /\ book' = IF ~written THEN book
                         ELSE IF existing # {} THEN [book EXCEPT ![FirstIndex(existing)] = row]
                         ELSE Append(book, row)
              /\ last_saved' = IF written
                               THEN [last_saved EXCEPT ![patient_id] =
                                        [rom |-> row.rom, writes |-> @.writes + 1]]
                               ELSE last_saved
    /\ saves' = saves + 1
    /\ loaded' = NotLoaded
    /\ UNCHANGED << session, scoring, sheet, now >>

\* Patient_Calibration.load_from_excel(patient_id); read = FALSE: reading the
\* workbook raises, the exception is caught and None is returned
LoadRom ==
    /\ \E patient_id \in PatientIds, read \in BOOLEAN :
          LET existing == Existing(book, patient_id) IN
          loaded' = IF ~read \/ existing = {}
                    THEN [op |-> "full", pid |-> patient_id, found |-> FALSE,
                          data |-> << >>, read |-> read]
                    ELSE [op |-> "full", pid |-> patient_id, found |-> TRUE,
                          data |-> book[FirstIndex(existing)].rom, read |-> TRUE]
    /\ UNCHANGED << session, scoring, sheet, book, now, saves, last_saved >>

\* datetime.now() moves on to the next minute
Minute ==
    /\ now < saves
    /\ now' = now + 1
    /\ UNCHANGED << session, scoring, sheet, book, saves, loaded, last_saved >>

InitStore ==
    /\ InitCommon
    /\ NoRecord
    /\ cpc = "off"
    /\ req_exercise = ""
    /\ rep = TargetReps
    /\ feed = LiveFeed

NextStore ==
    \/ SaveSession
    \/ LoadSession
    \/ SaveRom
    \/ LoadRom
    \/ Minute

SpecStore == InitStore /\ [][NextStore]_vars

---------------------------------------------------------------------------
(* Range and score functions on their own: the record of the session is any *)
(* record, and each function is called with any arguments.                  *)

unscored == << pc, locals, previous_angles, req_exercise, settings, success_exercise,
               ex_list, counters, max_repetitions_in_training, feed, history, calculator,
               cpc, midx, wticks, samples, raws, captured, max_angle, min_angle, rom_data, store,
               before, simple, persistence >>

\* s.patient_rom and s.patient_calibrated as a calibration or a load leaves
\* them
SetRom ==
    /\ \E rom \in InstalledRoms, calibrated \in BOOLEAN :
          /\ patient_rom' = rom
          /\ patient_calibrated' = calibrated
    /\ query' = NoQuery
    /\ answer' = NoAnswer
    /\ UNCHANGED unscored

AdaptiveCall ==
    /\ \E key \in Measurements \cup {0}, default_min \in DefaultMins,
          default_max \in DefaultMaxes :
          /\ query' = [fn |-> "adaptive", key |-> key, default_min |-> default_min,
                        default_max |-> default_max]
          /\ answer' = get_adaptive_range_for_joint(patient_calibrated, patient_rom, key,
                                                     default_min, default_max)
    /\ UNCHANGED << unscored, patient_rom, patient_calibrated >>

ScoreCall ==
    /\ \E rom \in RomInputs :
          /\ query' = [fn |-> "rom_score", rom |-> rom]
          /\ answer' = calculate_rom_score(rom)
    /\ UNCHANGED << unscored, patient_rom, patient_calibrated >>

AsymmetryCall ==
    /\ \E rom \in AsymmetryInputs :
          /\ query' = [fn |-> "asymmetry", rom |-> rom]
          /\ answer' = calculate_asymmetry(rom)
    /\ UNCHANGED << unscored, patient_rom, patient_calibrated >>

InitScore ==
    /\ InitCommon
    /\ NoRecord
    /\ cpc = "off"
    /\ req_exercise = ""
    /\ rep = TargetReps
    /\ feed = LiveFeed

NextScore ==
    \/ SetRom
    \/ AdaptiveCall
    \/ ScoreCall
    \/ AsymmetryCall

SpecScore == InitScore /\ [][NextScore]_vars

---------------------------------------------------------------------------
(* Properties *)

\* a step of the tracker that evaluated a frame (or a timeout)
TickStep == pc = "frame" /\ pc' # "frame"

DownToUp == TickStep /\ ~flag /\ flag'

UpToDown == TickStep /\ flag /\ ~flag'

RequiredJoints(e) ==
    UNION { SlotJoints(e, SlotOrder(e)[i]) : i \in 1 .. Len(SlotOrder(e)) } \cup CondJoints(e)

\* <<slot, lb, ub>> of every range test of the counting branch
UpTests(e) ==
    IF Catalog[e].kind = "side"
    THEN { <<SideSlot(e), up_lb(e, 1), up_ub(e, 1)>> }
    ELSE { <<RSlot(i), up_lb(e, i), up_ub(e, i)>> : i \in PairsOf(e) }
         \cup { IF Differ(e) THEN <<LSlot(i), down_lb(e, i), down_ub(e, i)>>
                ELSE <<LSlot(i), up_lb(e, i), up_ub(e, i)>> : i \in PairsOf(e) }

\* <<slot, lb, ub>> of every range test of the elif branch
DownTests(e) ==
    IF Catalog[e].kind = "side"
    THEN { <<SideSlot(e), down_lb(e, 1), down_ub(e, 1)>> }
    ELSE { <<RSlot(i), down_lb(e, i), down_ub(e, i)>> : i \in PairsOf(e) }
         \cup { IF Differ(e) THEN <<LSlot(i), up_lb(e, i), up_ub(e, i)>>
                ELSE <<LSlot(i), down_lb(e, i), down_ub(e, i)>> : i \in PairsOf(e) }

HitsBound(tests, a) == \E t \in tests : a[t[1]] = t[2] \/ a[t[1]] = t[3]

\* some range-tested angle equals one of the four bounds of its pair
HitsAnyBound(e, a) ==
    \E t \in UpTests(e) \cup DownTests(e) : \E i \in PairsOf(e) :
        /\ t[1] \in {RSlot(i), LSlot(i)}
        /\ a[t[1]] \in {up_lb(e, i), up_ub(e, i), down_lb(e, i), down_ub(e, i)}

\* C1: in every tracker the three repetition counters change only in a tick
\* that takes the phase from down (flag False) to up (flag True); a tick that
\* goes up to down, or makes no transition, and every other step of the
\* tracking loop, leaves them unchanged.
C1_CountOnlyOnDownToUp ==
    [][ ~DownToUp =>
          /\ number_of_repetitions_in_training' = number_of_repetitions_in_training
          /\ patient_repetitions_counting_in_exercise' = patient_repetitions_counting_in_exercise
          /\ (InRun => counter' = counter) ]_vars

\* C1 witness: after a counted repetition a tick went up to down and the
\* counters kept the value of the count
C1_Witness ==
    /\ pc = "target" /\ ~flag /\ downSeen
    /\ joints # NoFrame /\ DownCond(ex, angles, joints)
    /\ counter = 1 /\ number_of_repetitions_in_training = 1
    /\ patient_repetitions_counting_in_exercise = 1

\* the counter rises by at most one per tick, and a repetition after the
\* first of a run is counted only if, since the previous count, some tick
\* satisfied the full down condition and took the phase from up to down
DownBetweenCounts ==
    [][ (TickStep /\ counter' # counter) =>
          /\ counter' = counter + 1
          /\ (counter >= 1 => downSeen) ]_vars

\* C2: between two consecutive counts of a run there is a tick in which the
\* full down condition held and the phase went up to down, the counter rises
\* by at most one per tick, and therefore a run whose frames only oscillate
\* around one edge of the up range counts at most one repetition.
C2_HysteresisPreventsRecount ==
    /\ DownBetweenCounts
    /\ [](InRun /\ oscOnly => counter <= 1)

\* C3 as stated: a tick in which a tested angle equals any bound of its pair
\* makes no transition and no count.
C3_AnyBoundBlocksTick ==
    [][ (TickStep /\ pc' = "target" /\ joints' # NoFrame /\ HitsAnyBound(ex, angles')) =>
          (flag' = flag /\ counter' = counter) ]_vars

\* C3 amended: a value equal to a bound of a range does not satisfy that
\* range's test, so a tick in which an angle equals a bound of a range tested
\* by the counting transition performs no down-to-up transition and no count,
\* and one in which an angle equals a bound of a range tested by the
\* up-to-down transition performs no up-to-down transition.
C3_TestedBoundBlocksTransition ==
    [][ (TickStep /\ pc' = "target" /\ joints' # NoFrame) =>
          /\ HitsBound(UpTests(ex), angles') => (~DownToUp /\ counter' = counter)
          /\ HitsBound(DownTests(ex), angles') => ~UpToDown ]_vars

\* C3 witness: in phase down, both primary angles sit exactly on up_lb with
\* every other test satisfied, and nothing was counted
C3_Witness ==
    /\ pc = "target" /\ ex = "ball_bend_elbows" /\ ~flag
    /\ angles["R_1"] = up_lb(ex, 1) /\ angles["L_1"] = up_lb(ex, 1)
    /\ InUp(ex, 2, angles["R_2"]) /\ InUp(ex, 2, angles["L_2"])

\* C4 as stated: the run starts in phase down, so a tick with all angles in
\* the up ranges while nothing has been counted counts repetition 1.
C4_FirstUpTickCounts ==
    [][ (TickStep /\ pc' = "target" /\ joints' # NoFrame /\ counter = 0
            /\ UpCond(ex, angles', joints')) => counter' = 1 ]_vars

\* C4 amended: a run starts in phase up (flag True); repetition 1 is counted
\* only in a tick with the up condition that follows a tick in which the down
\* condition held and the phase went up to down.
C4_FirstCountNeedsDown ==
    /\ [](pc = "loop" /\ counter = 0 /\ ~downSeen => flag)
    /\ [][ (TickStep /\ counter = 0 /\ counter' = 1) =>
             (downSeen /\ UpCond(ex, angles', joints')) ]_vars

\* C4 witness: at the start of a run a tick had every angle in its up range
\* and counted nothing
C4_Witness ==
    /\ pc = "target" /\ counter = 0 /\ flag /\ ~downSeen
    /\ joints # NoFrame /\ UpCond(ex, angles, joints)

\* the scripted run is over: the tracker returned, or the script is used up
ScriptOver ==
    /\ feed.hold > 0
    /\ \/ pc = "idle" /\ ex # ""
       \/ pc = "loop" /\ feed.pos = ScriptLen(feed)

ScriptSuccess ==
    /\ success_exercise
    /\ counter = TargetReps
    /\ ex_list["ball_bend_elbows"] = TargetReps

\* frames the smoothed angle needs to pass from one pose of the script into
\* the range of the other
MinHold ==
    LET up   == (up_lb("ball_bend_elbows", 1) - Raw("ball_bend_elbows", "s30", "R_1"))
                    \div Deg(max_angle_jump) + 1
        down == (Raw("ball_bend_elbows", "s170", "R_1") - down_ub("ball_bend_elbows", 1))
                    \div Deg(max_angle_jump) + 1
    IN  IF up > down THEN up ELSE down

\* C5 as stated: ball_bend_elbows with target 5 on a script alternating the
\* primary angle between 170 and 30 for five cycles ends with success and
\* count 5.
C5_ScriptEndsInSuccess == ScriptOver => ScriptSuccess

\* C5 amended: the same holds when the script starts with the 30 degree pose
\* (each cycle is 30 then 170) and holds each value for at least MinHold
\* consecutive frames, starting from empty smoothing slots.
C5_HeldScriptEndsInSuccess ==
    (ScriptOver /\ feed.first = "s30" /\ feed.hold >= MinHold) => ScriptSuccess

\* C5 witness: such a script has ended in success with count 5
C5_Witness ==
    /\ ScriptOver /\ feed.first = "s30" /\ feed.hold >= MinHold
    /\ pc = "idle" /\ ScriptSuccess /\ req_exercise = ""

\* C6: the counter equals the target only in the tick that reached it; the
\* target check of that tick ends the run with req_exercise cleared and
\* success_exercise set, and the run records the target count in ex_list.
C6_TargetEndsRun ==
    /\ [](pc \in {"loop", "pause", "sleep", "frame"} => counter < rep)
    /\ [][ (pc = "target" /\ counter = rep /\ pc' # pc) =>
             (pc' = "finish" /\ req_exercise' = "" /\ success_exercise') ]_vars
    /\ [][ (pc = "finish" /\ pc' # pc /\ counter = rep) => ex_list'[ex] = rep ]_vars

\* C6 witness: a run that reached its target has returned
C6_Witness ==
    /\ pc = "ret" /\ counter = rep /\ success_exercise /\ ex_list[ex] = rep

\* C7: once stop_requested is set during tracking, the loop leaves at its
\* next check and no repetition is counted any more.
C7_StopEndsTracking ==
    [][ (stop_requested /\ InRun) =>
          /\ counter' = counter
          /\ (pc = "loop" /\ pc' # pc => pc' = "finish") ]_vars

\* the loop evaluates at most one frame after req_exercise left the tracked
\* exercise, and the run records the count it reached
ChangeEndsRun ==
    /\ [](staleTicks <= 1)
    /\ [][ (pc = "loop" /\ req_exercise # ex /\ pc' # pc) => pc' = "finish" ]_vars
    /\ [][ (pc = "finish" /\ pc' # pc) => ex_list'[ex] = counter ]_vars

\* C8 as stated: when req_exercise changes away from the tracked exercise
\* (run not paused) the loop ends within one tick, ex_list records the count
\* reached, and the run does not set success_exercise.
C8_ChangeNeverSucceeds ==
    /\ ChangeEndsRun
    /\ [][ (pc = "target" /\ req_exercise # ex /\ ~did_training_paused) =>
             pc' # "finish" ]_vars

\* C8 amended: ... and the run sets success_exercise only if the tick that
\* was in progress when the request changed brought the counter to the
\* target; otherwise the count recorded is below the target.
C8_ChangeSucceedsOnlyAtTarget ==
    /\ ChangeEndsRun
    /\ [](pc \in {"loop", "pause", "sleep", "frame"} => counter < rep)
    /\ [][ (pc = "target" /\ req_exercise # ex /\ pc' = "finish") => counter = rep ]_vars
    /\ [][ (pc = "loop" /\ pc' = "finish") => UNCHANGED success_exercise ]_vars

\* C8 witness: the request changed to another exercise, the run ended and
\* recorded its partial count without success
C8_Witness ==
    /\ pc = "ret" /\ req_exercise \notin {ex, ""}
    /\ counter = 1 /\ rep = 2 /\ ex_list[ex] = 1 /\ ~success_exercise

\* C9: a frame that lacks a joint the exercise needs is skipped: the loop
\* goes on to its target check, phase and counter unchanged.
C9_MissingJointSkipsTick ==
    [][ (TickStep /\ joints'.missing \in RequiredJoints(ex)) =>
          (pc' = "target" /\ flag' = flag /\ counter' = counter) ]_vars

\* C10: a tick whose read times out leaves the phase, the three counters and
\* every smoothing slot unchanged, and the loop goes on to the next tick.
C10_TimeoutTickIsNoOp ==
    /\ [][ (TickStep /\ joints' = NoFrame) =>
             /\ pc' = "target"
             /\ flag' = flag /\ counter' = counter
             /\ number_of_repetitions_in_training' = number_of_repetitions_in_training
             /\ patient_repetitions_counting_in_exercise' = patient_repetitions_counting_in_exercise
             /\ previous_angles' = previous_angles ]_vars
    /\ [][ (pc = "target" /\ joints = NoFrame /\ pc' # pc) => pc' = "loop" ]_vars

\* C10 witness: a timeout tick was taken in mid-run with smoothing slots set
C10_Witness ==
    /\ pc = "target" /\ joints = NoFrame
    /\ ~flag /\ counter = 1 /\ previous_angles["R_1"] # Absent

\* C11: while did_training_paused is set the loop idles: a pause check made
\* while paused never goes on to read a frame, so no frame is evaluated and
\* the phase and the counters keep their values.
C11_PausedLoopIdles ==
    [][ (pc = "pause" /\ did_training_paused) =>
          (pc' \in {"pause", "sleep"} /\ flag' = flag /\ counter' = counter) ]_vars

\* C12: in one paused interval the loop empties previous_angles on its
\* first idle iteration; from then on the map is empty for the rest of the
\* interval, so that no later idle iteration changes it.
C12_ClearedOncePerPause ==
    /\ [][ (pc = "sleep" /\ pauseSeen /\ pc' = "pause") =>
             previous_angles' = previous_angles ]_vars
    /\ [](did_training_paused /\ pauseSeen => previous_angles = EmptySlots)

\* a step that called calc_angle_3d on its own
CalcStep == call' # call

\* the angle of a raw geometric angle before jump limiting
Unlimited(raw) == IF NearStraight(raw) THEN raw - AntiStallOffset ELSE raw

\* two numbers more than max_angle_jump apart
Farther(a, b) == IsNum(a) /\ IsNum(b) /\ Abs(a - b) > Deg(max_angle_jump)

Sign(x) == IF x > 0 THEN 1 ELSE IF x < 0 THEN -1 ELSE 0

\* C13: jump limiting applies only when the slot holds a previous value: no
\* slot holds one before the first call of the session; the first angle
\* returned for a slot at session start, and the first angle returned for a
\* slot after the slots were emptied in a pause, is the angle without jump
\* limiting, and it is the value the slot then holds, however far it is from
\* the value stored before the pause; an angle that was jump-limited was
\* limited against the previous value of its slot.
C13_FirstAngleUnlimited ==
    /\ []((call = NoCall /\ inside = Outside) => previous_angles = EmptySlots)
    /\ [][ CalcStep =>
             /\ call'.first =>
                   /\ call'.angle = Unlimited(call'.raw)
                   /\ previous_angles'[call'.slot] = Unlimited(call'.raw)
             /\ call'.angle # Unlimited(call'.raw) => IsNum(call'.before) ]_vars

\* C14: a call on a slot holding the previous angle P neither returns nor
\* stores a value farther than max_angle_jump from P, whatever the raw
\* angle, and the returned value lies on the same side of P as the angle
\* that entered the jump limiting.
C14_JumpLimited ==
    [][ (CalcStep /\ IsNum(call'.before)) =>
          /\ ~Farther(call'.angle, call'.before)
          /\ ~Farther(previous_angles'[call'.slot], call'.before)
          /\ IsNum(call'.angle) =>
                Sign(call'.angle - call'.before) = Sign(Unlimited(call'.raw) - call'.before) ]_vars

\* C14 witness: a raw angle far above the previous value was returned and
\* stored as previous + max_angle_jump
C14_Witness ==
    /\ call.slot = "calibration" /\ IsNum(call.before) /\ IsNum(call.raw)
    /\ Unlimited(call.raw) - call.before > Deg(max_angle_jump)
    /\ call.angle = call.before + Deg(max_angle_jump)
    /\ previous_angles["calibration"] = call.angle

\* C15: a call whose vertex coincides with one of the other joints (raw
\* angle NaN) yields None, never NaN.
C15_DegenerateYieldsNone ==
    [][ (CalcStep /\ call'.raw = NaN) => call'.angle = None ]_vars

\* C16: every value returned by calc_angle_3d and every value stored in a
\* smoothing slot lies in [0, 180].
C16_AnglesInRange ==
    /\ \A sl \in Slots :
          previous_angles[sl] # Absent =>
              (0 <= previous_angles[sl] /\ previous_angles[sl] <= Deg(180))
    /\ (call.slot # "none" /\ call.angle # None) =>
          (0 <= call.angle /\ call.angle <= Deg(180))

\* a step in which capture_angle returns
WindowEnds == InWindow /\ ~InWindow'

\* what a window that ran its full duration yields
WindowResult ==
    IF samples = << >> THEN None
    ELSE IF cpc = "maxwin" THEN SeqMax(samples) ELSE SeqMin(samples)

HasPair(p) == p.max # Absent /\ p.min # Absent

\* C17: stop is acted on at measurement boundaries only; a window
\* that has started yields the maximum / minimum of its samples, also when
\* stop is requested while it is sampling.
C17_WindowAlwaysCompletes ==
    [][ WindowEnds => (wticks >= 1 /\ captured' = WindowResult) ]_vars

\* C18: a window that ends without a valid sample returns no result; the
\* measurement then records its normal_max and normal_min, and the protocol
\* goes on with the next measurement.
C18_EmptyWindowFallsBack ==
    /\ [][ (WindowEnds /\ samples = << >>) => captured' = None ]_vars
    /\ [][ (cpc \in {"maxret", "minret"} /\ captured = None /\ cpc' # cpc) =>
             (cpc' = "record" /\ ~Success') ]_vars
    /\ [][ (cpc = "record" /\ ~Success /\ cpc' # cpc) =>
             /\ rom_data'[midx] = Defaults(midx)
             /\ midx' = midx + 1
             /\ cpc' = "boundary" ]_vars
    /\ [][ (cpc = "boundary" /\ ~stop_requested /\ midx <= MaxMeas /\ cpc' # cpc) =>
             cpc' = "maxwin" ]_vars

\* C18 witness: with no stop requested the first measurement fell back to
\* its defaults and the second measurement is being sampled
C18_Witness ==
    /\ cpc = "maxwin" /\ midx = 2 /\ ~stop_requested
    /\ rom_data[1] = Defaults(1)

\* C19: every measurement of the record being built, of the record saved
\* and of the record installed has max >= min.
C19_MaxAtLeastMin ==
    \A i \in Measurements :
        /\ HasPair(rom_data[i]) => rom_data[i].max >= rom_data[i].min
        /\ HasPair(store[i]) => store[i].max >= store[i].min
        /\ HasPair(patient_rom[i]) => patient_rom[i].max >= patient_rom[i].min

\* C19 witness: a saved record holds a pair of defaults and a sampled pair
\* whose max is the result of the min window (the results were swapped)
C19_Witness ==
    /\ cpc = "done" /\ store = rom_data
    /\ store[1] = Defaults(1)
    /\ store[2].max = captured /\ store[2].max > store[2].min

\* C20: the ranges calibrate_one_exercise returns for an exercise are the
\* running maximum and minimum of the primary angles the tracker observed
\* during the repetition, so that right_max >= right_min and
\* left_max >= left_min.
C20_RangesAreObservedExtremes ==
    (spc = "ended" /\ ranges # NoRanges) =>
        /\ ranges.right_max >= ranges.right_min
        /\ ranges.left_max >= ranges.left_min

\* rows of the simplified store that belong to patient p and exercise e
SessionsOf(p, e) == { i \in 1 .. Len(sheet) : sheet[i].pid = p /\ sheet[i].exercise = e }

\* the largest element of a non-empty set of numbers
Latest(S) == CHOOSE i \in S : \A j \in S : i >= j

\* the sessions of the rows S were saved in different minutes
DatesDiffer(S) == \A i, j \in S : i # j => sheet[i].date # sheet[j].date

\* C21: after two (or more) simplified sessions saved for the same patient
\* at different times that include exercise E, load_from_excel returns for
\* E the ranges of the session saved last.
C21_LatestSessionWins ==
    (loaded.op = "simple" /\ loaded.found) =>
        \A e \in Range(SessionExercises) :
            LET S == SessionsOf(loaded.pid, e) IN
            (Cardinality(S) >= 2 /\ DatesDiffer(S)) =>
                loaded.data[e] = sheet[Latest(S)].ranges

\* rows of the full-protocol store that belong to patient p
RowsOf(rows, p) == { rows[i] : i \in Existing(rows, p) }

\* C22 as stated: the full-protocol store holds exactly one row for every
\* patient saved and none for the others; a save leaves the rows of the
\* patients it was not made for as they were; load_from_excel finds a
\* patient whenever a save was written for that patient and returns the
\* values of the last such save.
C22_LoadReturnsLastSave ==
    /\ [](\A p \in PatientIds :
            Cardinality(Existing(book, p)) = IF last_saved[p].writes > 0 THEN 1 ELSE 0)
    /\ [][\A p \in PatientIds :
            last_saved'[p] = last_saved[p] => RowsOf(book', p) = RowsOf(book, p)]_vars
    /\ [](loaded.op = "full" =>
            /\ loaded.found <=> last_saved[loaded.pid].writes > 0
            /\ loaded.found => loaded.data = last_saved[loaded.pid].rom)

\* C22 amended: one row per patient saved and a save leaves the rows of the
\* other patients as they were, as stated; load_from_excel returns the
\* values of the patient's last written save when the workbook can be read
\* and such a save exists, and None otherwise.
C22_OneRowPerPatient ==
    /\ [](\A p \in PatientIds :
            Cardinality(Existing(book, p)) = IF last_saved[p].writes > 0 THEN 1 ELSE 0)
    /\ [][\A p \in PatientIds :
            last_saved'[p] = last_saved[p] => RowsOf(book', p) = RowsOf(book, p)]_vars
    /\ [](loaded.op = "full" =>
            /\ loaded.found <=> (loaded.read /\ last_saved[loaded.pid].writes > 0)
            /\ loaded.found => loaded.data = last_saved[loaded.pid].rom)

\* C22 witness: the first row was written twice, a row of another patient
\* lies below it, and a load returned the values written last
C22_Witness ==
    /\ Len(book) = 2
    /\ book[1].pid # book[2].pid
    /\ last_saved[book[1].pid].writes = 2
    /\ loaded.op = "full" /\ loaded.found /\ loaded.pid = book[1].pid
    /\ loaded.data = last_saved[book[1].pid].rom
    /\ loaded.data # book[2].rom

\* the record has both keys of the measurement the call names
HasKeys(rom, key) ==
    key \in DOMAIN rom /\ rom[key].max # Absent /\ rom[key].min # Absent

\* C23: get_adaptive_range_for_joint returns the defaults when the patient
\* is not calibrated, when the record lacks the key's max or min, and when
\* patientMax >= defaultMax; otherwise (patientMax < defaultMax) it returns
\* (patientMin, patientMin + 0.9 * (patientMax - patientMin)).
C23_AdaptiveRange ==
    query.fn = "adaptive" =>
        IF \/ ~patient_calibrated
           \/ ~HasKeys(patient_rom, query.key)
           \/ patient_rom[query.key].max >= query.default_max
        THEN answer = [min |-> query.default_min, max |-> query.default_max]
        ELSE /\ answer.min = patient_rom[query.key].min
             /\ 10 * (answer.max - answer.min)
                    = 9 * (patient_rom[query.key].max - patient_rom[query.key].min)

\* C23 witness: a calibrated patient limited to 30..90 degrees gets the
\* range (30, 84) in place of the defaults (20, 150)
C23_Witness ==
    /\ query.fn = "adaptive" /\ query.default_max = Deg(150)
    /\ patient_calibrated
    /\ HasKeys(patient_rom, query.key)
    /\ patient_rom[query.key] = [max |-> Deg(90), min |-> Deg(30)]
    /\ answer = [min |-> Deg(30), max |-> Deg(84)]

\* pairs of calculate_asymmetry whose two sides are present and positive
ValidPairs(rom) ==
    { k \in 1 .. Len(AsymmetryPairs) :
        /\ rom[AsymmetryPairs[k][1]] # Absent /\ rom[AsymmetryPairs[k][1]] > 0
        /\ rom[AsymmetryPairs[k][2]] # Absent /\ rom[AsymmetryPairs[k][2]] > 0 }

\* |rightMax - leftMax| of pair k when it is valid, 0 otherwise
PairTerm(rom, k) ==
    IF k \in ValidPairs(rom)
    THEN Abs(rom[AsymmetryPairs[k][1]] - rom[AsymmetryPairs[k][2]]) ELSE 0

\* C24: calculate_asymmetry returns the mean of |rightMax - leftMax| over
\* the pairs whose two sides are present and positive, 0 when there is no
\* such pair; with R_Elbow_Max = 140 and L_Elbow_Max = 120 as the only valid
\* pair it returns 20.
C24_AsymmetryMean ==
    query.fn = "asymmetry" =>
        LET V == ValidPairs(query.rom) IN
        /\ V = {} => answer = [num |-> 0, den |-> 1]
        /\ V # {} =>
              /\ answer.den = Cardinality(V)
              /\ answer.num = PairTerm(query.rom, 1) + PairTerm(query.rom, 2)
                                  + PairTerm(query.rom, 3)
        /\ (V = {2} /\ query.rom["R_Elbow"] = Deg(140) /\ query.rom["L_Elbow"] = Deg(120))
              => answer.num = Deg(20) * answer.den

\* C24 witness: the elbow pair 140 / 120 is the only valid one, next to a
\* pair with one side missing; the result is 20
C24_Witness ==
    /\ query.fn = "asymmetry"
    /\ query.rom["R_Elbow"] = Deg(140) /\ query.rom["L_Elbow"] = Deg(120)
    /\ query.rom["R_Shoulder_Hip_Elbow"] = Absent
    /\ query.rom["L_Shoulder_Hip_Elbow"] = Deg(140)
    /\ ValidPairs(query.rom) = {2}
    /\ answer = [num |-> Deg(20), den |-> 1]

\* measurements the record has a max of
Present(rom) == { i \in Measurements : rom[i].max # Absent }

\* min(100, patientMax / normalMax * 100) of measurement i when present
ScoreTerm(rom, i) ==
    IF i \notin Present(rom) THEN 0
    ELSE IF rom[i].max >= Defaults(i).max THEN Percent(100)
    ELSE (rom[i].max * Percent(100)) \div Defaults(i).max

\* sum of the terms of the measurements 1 .. i
RECURSIVE ScoreSum(_, _)
ScoreSum(rom, i) == IF i = 0 THEN 0 ELSE ScoreTerm(rom, i) + ScoreSum(rom, i - 1)

\* C25: calculate_rom_score returns the mean, over the measurements present
\* in the record, of min(100, patientMax / normalMax * 100) (0 for a record
\* without measurements): it never exceeds 100 and is exactly 100 when every
\* patientMax present is at least its normalMax.
C25_RomScoreCapped ==
    query.fn = "rom_score" =>
        LET P == Present(query.rom) IN
        /\ answer.num <= Percent(100) * answer.den
        /\ P = {} => answer = [num |-> 0, den |-> 1]
        /\ P # {} =>
              /\ answer.den = Cardinality(P)
              /\ answer.num = ScoreSum(query.rom, MaxMeas)
              /\ (\A i \in P : query.rom[i].max >= Defaults(i).max)
                    => answer.num = Percent(100) * answer.den

\* C25 witness: every measurement reaches its normal maximum, the first one
\* exceeds it, and the score is 100
C25_Witness ==
    /\ query.fn = "rom_score"
    /\ Present(query.rom) = Measurements
    /\ query.rom[1].max > Defaults(1).max
    /\ \A i \in Measurements : query.rom[i].max >= Defaults(i).max
    /\ answer.num = Percent(100) * answer.den

\* what run_calibration has returned to its caller: True after its loop,
\* False when a stop request ended the loop, nothing while it runs
run_calibration_result ==
    CASE cpc = "done" -> "True"
      [] cpc = "cancelled" -> "False"
      [] OTHER -> "running"

\* C26: when persisting the calibration fails, the run still completes with
\* the new record installed (patient_rom is the record, patient_calibrated is
\* True), and the caller is told that the session was not durably saved: what
\* the run returns differs from the return of a run whose save succeeded.
C26_FailedSaveIsFlagged ==
    (cpc = "done" /\ store # rom_data) =>
        /\ patient_rom = rom_data
        /\ patient_calibrated
        /\ run_calibration_result # "True"

\* C27: the repetition counters and the success flag are written by the
\* tracker only: no step of a collaborator (a step of the calibration, or
\* the stop request of the session control) changes
\* patient_repetitions_counting_in_exercise,
\* number_of_repetitions_in_training or success_exercise, so that a count of
\* the tracker is never overwritten.
C27_CountersWrittenByTrackerOnly ==
    [][ (spc' # spc \/ stop_requested' # stop_requested) =>
            /\ patient_repetitions_counting_in_exercise' =
                   patient_repetitions_counting_in_exercise
            /\ number_of_repetitions_in_training' = number_of_repetitions_in_training
            /\ success_exercise' = success_exercise ]_vars

---------------------------------------------------------------------------
(* The camera thread next to the full calibration protocol: the session     *)
(* control has requested an exercise and run_calibration is called from     *)
(* another thread.  The protocol is followed to the end of its first        *)
(* sampling window.                                                         *)

InitBoth ==
    /\ InitCommon
    /\ NoRecord
    /\ cpc = "off"
    /\ req_exercise = "ball_bend_elbows"
    /\ rep = 1
    /\ feed = LiveFeed

NextBoth ==
    \/ PickRequest
    \/ AnnounceTest
    \/ CallExercise
    \/ LoopCheck
    \/ PauseCheck
    \/ Tick
    \/ TargetCheck
    \/ Finish
    \/ ReturnToRun
    \/ StartCalibration
    \/ Boundary
    \/ WindowTest
    \/ Sample
    \/ Expire

SpecBoth == InitBoth /\ [][NextBoth]_vars

\* C28: at every moment at most one activity reads skeleton frames and
\* writes the smoothing slots: the tracking loop of an exercise and a
\* sampling window of the full protocol are never active together.
C28_OneFrameConsumer == ~(InRun /\ InWindow)

\* C29: once the tracker has reached the target count, a controller that
\* reads req_exercise = "" also reads success_exercise = TRUE and finds the
\* final count of the exercise in ex_list: the result is published no later
\* than the request is cleared.
C29_ResultVisibleWhenRequestCleared ==
    (pc \in {"finish", "ret", "idle"} /\ ex # "" /\ counter = rep /\ req_exercise = "") =>
        /\ success_exercise
        /\ ex_list[ex] = counter

\* C30: in an exercise with left_right_differ, a tick counts a repetition
\* (DOWN->UP) only when, for every pair, the right angle is inside the up
\* range and the left angle inside the down range, and a tick takes
\* UP->DOWN only when the right angle is inside the down range and the left
\* angle inside the up range, whichever tracker the exercise runs.
C30_DifferTransitions ==
    [][ /\ (DownToUp /\ Catalog[ex].differ) =>
              \A i \in PairsOf(ex) :
                  /\ InUp(ex, i, angles'[RSlot(i)])
                  /\ InDown(ex, i, angles'[LSlot(i)])
        /\ (UpToDown /\ Catalog[ex].differ) =>
              \A i \in PairsOf(ex) :
                  /\ InDown(ex, i, angles'[RSlot(i)])
                  /\ InUp(ex, i, angles'[LSlot(i)]) ]_vars

\* C30 witness: an exercise with left_right_differ has counted a repetition
\* on a frame whose right angles are inside the up ranges and whose left
\* angles are inside the down ranges, the second pair with different angles
C30_Witness ==
    /\ ex \in ExerciseNames /\ Catalog[ex].differ /\ Catalog[ex].kind = "two"
    /\ pc = "target" /\ joints # NoFrame /\ flag /\ counter = 1
    /\ \A i \in PairsOf(ex) :
          InUp(ex, i, angles[RSlot(i)]) /\ InDown(ex, i, angles[LSlot(i)])
    /\ ~InUp(ex, 2, angles["L_2"])

\* horizontal shoulder separation of the frame of a tick
ShoulderSeparation(e, fr) == Abs(X(e, fr.pose, "L_shoulder") - X(e, fr.pose, "R_shoulder"))

\* C31: the tracker with the axis check counts no repetition in a tick whose
\* frame has a horizontal shoulder separation that is not below the
\* threshold, whatever the exercise's setting of left_right_differ.
C31_AxisCheckGuardsCount ==
    [][ (TickStep /\ Catalog[ex].kind = "axis" /\ counter' > counter) =>
            ShoulderSeparation(ex, joints') < AxisThreshold ]_vars

\* C31 witness: a tick of the axis-check tracker in its down phase met the
\* angle conditions of the counting branch on a frame whose shoulder
\* separation is not below the threshold, and counted nothing
C31_Witness ==
    /\ ex \in ExerciseNames /\ Catalog[ex].kind = "axis"
    /\ pc = "target" /\ joints # NoFrame /\ ~flag /\ counter = 0
    /\ ShoulderSeparation(ex, joints) >= AxisThreshold
    /\ \A i \in PairsOf(ex) :
          InUp(ex, i, angles[RSlot(i)]) /\ InDown(ex, i, angles[LSlot(i)])

\* C32: in run_calibration_for_training an exercise whose wait ended on the
\* timeout without a repetition is skipped: calibrate_one_exercise clears
\* the request and returns no ranges, nothing is recorded for the exercise
\* and the loop goes on to the next exercise; after the last exercise the
\* data collected is handed to the save, installed, and patient_calibrated
\* is set.
C32_TimedOutExerciseIsSkipped ==
    /\ [][ (spc = "return" /\ spc' = "ended" /\ broke /\ ~stop_requested) =>
              (ranges' = NoRanges /\ req_exercise = "") ]_vars
    /\ [][ (spc = "ended" /\ spc' # spc /\ ranges = NoRanges) =>
              (calibration_data' = calibration_data
               /\ (~stop_requested => spc' \in {"off", "save"})) ]_vars
    /\ [](spc = "done" => (patient_calibrated /\ patient_rom = calibration_data))

\* C33: when the request is changed from the exercise being tracked to
\* another exercise, the camera thread ends the run of the former and never
\* loses the new request: no step of the camera thread changes req_exercise
\* while it names an exercise other than the one of the run.
C33_NewRequestSurvivesRunEnd ==
    [][ (pc \in {"loop", "pause", "sleep", "frame", "target", "finish", "ret"} /\ pc' # pc
         /\ req_exercise \in ExerciseNames /\ req_exercise # ex) =>
            req_exercise' = req_exercise ]_vars

\* C34: when req_exercise no longer names the tracked exercise while the
\* run is paused and no stop is requested, the tracker does not wait for
\* the pause to be lifted: the step it takes in its pause check leaves the
\* inner loop, on the way to the end of the run.
C34_ChangeEndsPausedRun ==
    [][ (pc = "pause" /\ did_training_paused /\ ~stop_requested /\ req_exercise # ex
         /\ UNCHANGED << req_exercise, did_training_paused, stop_requested >>) =>
            pc' \notin {"pause", "sleep"} ]_vars

\* C35: with a fixed target rep >= 1 the local counter of a run stays
\* within 0 .. rep, and once it has reached rep no repetition is counted any
\* more: the counter and number_of_repetitions_in_training keep their values
\* until the next run starts.
C35_CounterWithinTarget ==
    /\ [](0 <= counter /\ counter <= rep)
    /\ [][ (counter = rep /\ pc \notin {"announce", "call"}) =>
              /\ counter' = counter
              /\ number_of_repetitions_in_training' = number_of_repetitions_in_training
         ]_vars

\* C35 witness: a run with a target of two or more has counted up to it
C35_Witness ==
    /\ pc = "finish" /\ rep >= 2 /\ counter = rep
    /\ number_of_repetitions_in_training = rep

---------------------------------------------------------------------------
(* The run loop of the camera thread over a sequence of exercise runs: the  *)
(* session control requests one exercise after another, or withdraws the    *)
(* request.                                                                 *)

\* the exercises of the sequence: a two-angle and a one-sided tracker
SequenceExercises == { "ball_bend_elbows", "notool_right_hand_up_and_bend" }

\* run(): a pending request is picked up (lines 143-144), for up to
\* MaxSequence runs
PickNext ==
    /\ UNCHANGED not_tracking
    /\ pc = "idle"
    /\ req_exercise # ""
    /\ max_repetitions_in_training < MaxSequence * rep
    /\ runs < MaxSequence
    /\ runs' = IF req_exercise # "hello_waving" THEN runs + 1 ELSE runs
    /\ ex' = req_exercise
    /\ pc' = "picked"
    /\ UNCHANGED << flag, counter, joints, angles, previous_angles, req_exercise, settings,
                    success_exercise, ex_list, counters, max_repetitions_in_training,
                    feed, run_history, pause_history >>

RequestNext == \E e \in SequenceExercises \cup {"hello_waving"} : RequestExercise(e)

InitSequence ==
    /\ InitCommon
    /\ NoRecord
    /\ cpc = "off"
    /\ req_exercise = ""
    /\ rep \in 1 .. MaxRep
    /\ feed = LiveFeed

NextSequence ==
    \/ PickNext
    \/ AnnounceTest
    \/ CallExercise
    \/ LoopCheck
    \/ PauseCheck
    \/ Tick
    \/ TargetCheck
    \/ Finish
    \/ WaveCheck
    \/ WaveTick
    \/ ReturnToRun
    \/ RequestNext
    \/ ClearRequest

SpecSequence == InitSequence /\ [][NextSequence]_vars

\* C36: over any sequence of exercise runs started by the run loop, with
\* both counters starting at 0 and rep constant,
\* number_of_repetitions_in_training never exceeds
\* max_repetitions_in_training.
C36_CountedWithinMax == number_of_repetitions_in_training <= max_repetitions_in_training

\* C37: once stop_requested is set during a run of the full protocol, the
\* last measurement included, the run ends cancelled: no later step of the
\* run writes the store or sets patient_calibrated, and the run does not
\* complete.
C37_StopCancelsCalibration ==
    [][ (stop_requested /\ cpc \notin {"off", "done", "cancelled"}) =>
            /\ store' = store
            /\ ~patient_calibrated'
            /\ cpc' # "done" ]_vars

---------------------------------------------------------------------------
(* The full protocol run again for a patient who is calibrated already.    *)

\* run_calibration up to its loop, called after a run that completed; a run
\* that was itself started for a calibrated patient is not followed by
\* another one
StartAgain ==
    /\ cpc = "done"
    /\ ~before.calibrated
    /\ patient_calibrated' = FALSE
    /\ rom_data' = NoRom
    /\ midx' = 1
    /\ cpc' = "boundary"
    /\ before' = [rom |-> patient_rom, calibrated |-> patient_calibrated]
    /\ UNCHANGED << tracker, stop_requested, previous_angles, wticks, samples, raws, captured,
                    max_angle, min_angle, store, patient_rom >>

\* the session after a run of the protocol that completed without a valid
\* sample: every measurement fell back to its defaults, the record is
\* installed and the row was written or the write failed
InitAgain ==
    /\ InitCommon
    /\ cpc = "done"
    /\ rom_data = [i \in Measurements |-> Defaults(i)]
    /\ patient_rom = rom_data
    /\ patient_calibrated = TRUE
    /\ store \in {rom_data, NoRom}
    /\ req_exercise = ""
    /\ rep = TargetReps
    /\ feed = LiveFeed

NextAgain ==
    \/ StartAgain
    \/ Boundary
    \/ WindowTest
    \/ Sample
    \/ Expire
    \/ MaxReturn
    \/ MinReturn
    \/ Record
    \/ Save
    \/ Install
    \/ RequestStop

SpecAgain == InitAgain /\ [][NextAgain]_vars

\* C38: a run of the full protocol that ends cancelled leaves patient_rom
\* and patient_calibrated as they were when the run was started.
C38_CancelledRunRestoresState ==
    cpc = "cancelled" =>
        /\ patient_rom = before.rom
        /\ patient_calibrated = before.calibrated

\* largest and smallest element of a non-empty set of angles
SetMax(S) == CHOOSE x \in S : \A y \in S : x >= y

SetMin(S) == CHOOSE x \in S : \A y \in S : x <= y

\* C39: the result of a max window is never greater than the largest raw
\* angle the skeleton source produced during the window, and the result of
\* a min window never smaller than the smallest raw angle of the window:
\* what an earlier window or measurement left in the 'calibration' slot does
\* not reach the result.
C39_WindowResultWithinRawAngles ==
    /\ (cpc = "maxret" /\ captured # None) => (raws # {} /\ captured <= SetMax(raws))
    /\ (cpc = "minret" /\ captured # None) => (raws # {} /\ captured >= SetMin(raws))

====
